---- MODULE Spec2Model ----
(***************************************************************************)
(* Model of pmtools' GitHub helper (lib/githubapihelper.js): the paginated *)
(* listings allRepos / allIssues / getAllUserEvents and the organization   *)
(* wide fan-out operations built on them.                                  *)
(*                                                                         *)
(* Node runs one callback at a time, so every action below is one callback *)
(* of the source run to completion: the callback of an upstream API call,  *)
(* or a promise handler (.then / .fail / .done) of a settled promise.      *)
(***************************************************************************)
EXTENDS Integers, Sequences, FiniteSets, TLC

\* ------------------------------------------------------------------ bounds
MaxPages == 3        \* highest page number a listing announces
MaxPerPage == 2      \* most items on one page
MaxRepos == 2        \* most repositories the organization enumeration returns
MaxEntities == 2     \* most labels / milestones / issues one repository returns
MaxDeps == 1         \* most entries under dependencies / devDependencies
MaxRuns == 2         \* most calls of updatePackageToBranch on one manifest
MaxEntries == 2      \* most entries of workspace.json

VARIABLES
    pgOp,        \* paginated operation in progress, "idle" before the call
    pgArgs,      \* its arguments: [user, repo] (allIssues), else [user |-> org/user]
    pgPc,        \* which handler of the operation runs next
    pagePromise, \* page number -> promise of the single-page wrapper for it
    requests,    \* upstream page requests issued so far, in order of issue
    completed,   \* pages whose upstream callback has run, in order of completion
    qall,        \* the Q.all(promises) promise over pages 2..last
    results,     \* the operation's `results` array
    deferred,    \* the promise the operation returned
    foOp,         \* organization-wide operation in progress, "idle" before
    foArg,        \* its label / milestone argument
    foPc,         \* which handler of the operation runs next
    reposPromise, \* the promise of self.allRepos(org)
    repoPromise,  \* index in repoList -> promise of the per-repository call
    msPromise,    \* index -> promise of milestonesInRepo (deleteMilestoneInRepo)
    msHandled,    \* index -> the .then handler of msPromise has run
    delPending,   \* deleteMilestone calls in flight: <<index, number>>
    delIssued,    \* index -> the deleteMilestone calls issued for it, in order
    join,         \* the Q.all / Q.allSettled promise over the per-repository calls
    foResults,    \* loadAllIssues' `results` array
    foDeferred,   \* the promise the operation returned
    foLog,        \* lines written with console.error
    uncaught,     \* error rethrown by .done(), Null while the process lives
    repoCalls,    \* index -> upstream calls the per-repository function issued at its call
    delLog,       \* index -> the distinct lines its deleteMilestone callbacks wrote with console.log
    verbose,      \* nconf.get('verbose')
    ghRuns,       \* calls of updatePackageToBranch made so far
    ghBranch,     \* branchname of the call in progress
    ghCwd,        \* cwd of the call in progress
    ghPc,         \* which callback / handler of the call runs next
    ghFile,       \* text of <cwd>/package.json on disk
    ghData,       \* value flowing down the promise chain (text, then packagedata)
    ghIssued,     \* file operations and commands the call has issued, in order
    ghPromise,    \* the promise updatePackageToBranch returned
    ghLog,        \* lines the call wrote with console.log
    ghWritten,    \* the packagedata of every completed writeFile, in order
    wsCmd,        \* workspace command in progress, "idle" before
    wsBranch,     \* <branchname> argument of make-release-branch
    wsPc,         \* which callback / handler of the command runs next
    wsFile,       \* the promise readWorkspace() returned
    wsKeys,       \* the command's `keys` array
    wsTodo,       \* entry -> steps its operation still has to finish, first in flight
    wsPromise,    \* phase -> entry -> promise of the entry's operation
    wsLog,        \* lines written with console.log
    wsErr,        \* lines written with console.error
    spSelf,       \* the Subprocess object: command, verbose, ignoreErrorCode
    spPc,         \* "idle", "running" (exec called) or "done" (callback has run)
    spError,      \* how the child process ended, as exec reported it
    spPromise,    \* the promise run() returned
    spLog,        \* lines run() and its callback wrote with console.log
    hpOp,         \* githelper function called directly, "idle" before
    hpArgs,       \* its arguments: cwd, branchname
    hpPc,         \* which callback / handler of the call runs next
    hpTodo,       \* steps the call still has to finish, the first one in flight
    hpIssued,     \* fs.exists calls and commands issued so far, in order
    hpRun,        \* the promise of the Subprocess run in flight or just ended
    hpPromise,    \* the promise the function returned
    hpExists      \* what fs.exists passed to its callback ("yes" / "no"), Null before

foVars == <<foOp, foArg, foPc, reposPromise, repoPromise, msPromise, msHandled,
           delPending, delIssued, join, foResults, foDeferred, foLog, uncaught,
           repoCalls, delLog>>

pgVars == <<pgOp, pgArgs, pgPc, pagePromise, requests, completed, qall, results,
           deferred>>

ghVars == <<verbose, ghRuns, ghBranch, ghCwd, ghPc, ghFile, ghData, ghIssued,
           ghPromise, ghLog, ghWritten>>

wsVars == <<wsCmd, wsBranch, wsPc, wsFile, wsKeys, wsTodo, wsPromise, wsLog, wsErr>>

spVars == <<spSelf, spPc, spError, spPromise, spLog>>

hpVars == <<hpOp, hpArgs, hpPc, hpTodo, hpIssued, hpRun, hpPromise, hpExists>>

vars == <<pgVars, foVars, ghVars, wsVars, spVars, hpVars>>

\* what the actions of one subsystem leave alone
outsidePg == <<foVars, ghVars, wsVars, spVars, hpVars>>
outsideFo == <<pgVars, ghVars, wsVars, spVars, hpVars>>
outsideGh == <<pgVars, foVars, wsVars, spVars, hpVars>>
outsideWs == <<pgVars, foVars, ghVars, spVars, hpVars>>
outsideSp == <<pgVars, foVars, ghVars, wsVars, hpVars>>
outsideHp == <<pgVars, foVars, ghVars, wsVars, spVars>>

\* ------------------------------------------------------------ Q promises
Null == "null"
NoPromise == [state |-> "none", value |-> <<>>, reason |-> ""]
Pending == [state |-> "pending", value |-> <<>>, reason |-> ""]

\* deferred.resolve(v): settles a pending promise, ignored once settled
Resolve(p, v) ==
    IF p.state = "pending"
    THEN [state |-> "fulfilled", value |-> v, reason |-> ""]
    ELSE p

\* deferred.reject(e): settles a pending promise, ignored once settled
Reject(p, e) ==
    IF p.state = "pending"
    THEN [state |-> "rejected", value |-> <<>>, reason |-> e]
    ELSE p

\* the elements of an array
Range(seq) == { seq[i] : i \in 1..Len(seq) }

\* ------------------------------------------------------------ lodash bits
\* _.has(object, key)
Has(obj, key) == key \in DOMAIN obj

RECURSIVE Flatten(_)
\* concatenation of a sequence of sequences, in sequence order
Flatten(ss) == IF ss = <<>> THEN <<>> ELSE Head(ss) \o Flatten(Tail(ss))

\* Mutant: every item of the page is pushed.
PushWithIdAll(acc, page) == acc \o page

\* the `if (_.has(x, 'id')) results.push(x)` loop over one page
PushWithId(acc, page) == acc \o SelectSeq(page, LAMBDA x : Has(x, "id"))

RECURSIVE PushPages(_, _)
\* the nested _.forEach over allResults: pages in array order
PushPages(acc, pages) ==
    IF pages = <<>> THEN acc
    ELSE PushPages(PushWithId(acc, Head(pages)), Tail(pages))

\* ------------------------------------------------------ upstream responses
\* An item of page p at position j: well formed (it has an id) or not.
Item(p, j, ok) == IF ok THEN [id |-> 10 * p + j] ELSE [node |-> 10 * p + j]

\* The bodies a page request can be answered with.
PageBodies(p) ==
    UNION { { [j \in 1..n |-> Item(p, j, oks[j])] : oks \in [1..n -> BOOLEAN] }
            : n \in 0..MaxPerPage }

\* What the upstream callback receives as `data`: the items, and the page
\* number of the rel="last" link of the response (0: no such link).
PageData(p) ==
    { [items |-> b, lastPage |-> l] :
        b \in PageBodies(p), l \in (IF p = 1 THEN 0..MaxPages ELSE {0}) }

PageError(p) == "upstream error on page " \o ToString(p)

\* github.hasLastPage(data)
hasLastPage(data) == data.lastPage /= 0

\* ------------------------------------------------------------ operations
PagedOps == {"allRepos", "allIssues", "getAllUserEvents"}

\* Mutant: page 2 is requested together with page 1.
StartPagedPrefetch(op, args, d) ==
    /\ pgOp = "idle"
    /\ pgOp' = op
    /\ pgArgs' = args
    /\ pgPc' = "page1"
    /\ pagePromise' = [pagePromise EXCEPT ![1] = d, ![2] = Pending]
    /\ requests' = <<1, 2>>
    /\ deferred' = d
    /\ UNCHANGED <<completed, qall, results>>
    /\ UNCHANGED outsidePg

\* The operation up to its first single-page call. d is the returned promise
\* after the argument checks; issues() makes the same checks on its own
\* deferred (lines 46-51) before it calls upstream, so the promise of the
\* first page starts in the same state.
StartPaged(op, args, d) ==
    /\ pgOp = "idle"
    /\ pgOp' = op
    /\ pgArgs' = args
    /\ pgPc' = "page1"
    /\ pagePromise' = [pagePromise EXCEPT ![1] = d]
    /\ requests' = <<1>>
    /\ deferred' = d
    /\ UNCHANGED <<completed, qall, results>>
    /\ UNCHANGED outsidePg

\* allRepos(org): lines 107-113, the call up to the first repos(org)
CallAllRepos == StartPaged("allRepos", [user |-> "org"], Pending)

\* allIssues(user, repo): lines 154-167; a missing user or repo rejects the
\* returned promise and the first issues() call is made all the same
CallAllIssues ==
    \E user \in {Null, "org"}, repo \in {Null, "r"} :
        StartPaged("allIssues", [user |-> user, repo |-> repo],
            LET d1 == IF user = Null THEN Reject(Pending, "No user specified")
                      ELSE Pending
            IN IF repo = Null THEN Reject(d1, "No repo specified") ELSE d1)

\* getAllUserEvents(user): lines 636-641
CallGetAllUserEvents == StartPaged("getAllUserEvents", [user |-> "u"], Pending)

\* The promise of a single-page wrapper after its upstream callback ran.
\* issues() and repos() call reject(err) and then resolve(data) as well;
\* getUserEvents() has the else branch.
SettlePage(op, p, err, data) ==
    IF op = "getAllUserEvents"
    THEN IF err /= Null THEN Reject(p, err) ELSE Resolve(p, data)
    ELSE Resolve(IF err /= Null THEN Reject(p, err) ELSE p, data)

\* Mutant: the pages' values collected in the order the pages completed.
QAllStepCompletionOrder(q, pp, lo, hi, p) ==
    IF q.state /= "pending" THEN q
    ELSE IF pp[p].state = "rejected" THEN Reject(q, pp[p].reason)
    ELSE IF \A i \in lo..hi : pp[i].state = "fulfilled"
         THEN Resolve(q, [i \in 1..(hi - lo + 1) |-> pp[completed'[i + 1]].value])
    ELSE q

\* Mutant: an allSettled-like join that waits for every page and keeps the
\* values of the pages that succeeded.
QAllStepSettled(q, pp, lo, hi, p) ==
    IF q.state /= "pending" THEN q
    ELSE IF \A i \in lo..hi : pp[i].state \in {"fulfilled", "rejected"}
         THEN LET ok == SelectSeq([i \in 1..(hi - lo + 1) |-> lo + i - 1],
                                  LAMBDA i : pp[i].state = "fulfilled")
              IN Resolve(q, [i \in 1..Len(ok) |-> pp[ok[i]].value])
    ELSE q

\* Q.all over the page promises lo..hi given their states: rejected with the
\* first rejection, fulfilled once every one is fulfilled.
QAllStep(q, pp, lo, hi, p) ==
    IF q.state /= "pending" THEN q
    ELSE IF pp[p].state = "rejected" THEN Reject(q, pp[p].reason)
    ELSE IF \A i \in lo..hi : pp[i].state = "fulfilled"
         THEN Resolve(q, [i \in 1..(hi - lo + 1) |-> pp[lo + i - 1].value])
    ELSE q

\* the upstream request for page p was issued and its callback has not run
InFlight(p) == p \in Range(requests) /\ p \notin Range(completed)

\* callback of github.repos.getFromOrg / issues.repoIssues / events.getFromUser
PageCallback ==
    \E p \in 1..MaxPages :
        /\ InFlight(p)
        /\ completed' = Append(completed, p)
        /\ \E err \in {Null, PageError(p)} :
           \E data \in (IF err = Null THEN PageData(p) ELSE {<<>>}) :
              LET pp == [pagePromise EXCEPT
                            ![p] = SettlePage(pgOp, pagePromise[p], err, data)]
              IN /\ pagePromise' = pp
                 /\ qall' = IF p >= 2
                            THEN QAllStep(qall, pp, 2, Len(requests), p)
                            ELSE qall
        /\ UNCHANGED <<pgOp, pgArgs, pgPc, requests, results, deferred>>
        /\ UNCHANGED outsidePg

\* Mutant: the loop over the further pages stops one page short.
FirstPageThenShort ==
    /\ pgPc = "page1"
    /\ pagePromise[1].state = "fulfilled"
    /\ LET data == pagePromise[1].value
           last == data.lastPage
       IN /\ results' = PushWithId(results, data.items)
          /\ IF hasLastPage(data)
             THEN /\ pagePromise' = [p \in 1..MaxPages |->
                        IF p >= 2 /\ p < last THEN Pending ELSE pagePromise[p]]
                  /\ requests' = requests \o [i \in 1..(last - 2) |-> i + 1]
                  /\ qall' = IF last < 3 THEN Resolve(Pending, <<>>) ELSE Pending
                  /\ pgPc' = "all"
                  /\ UNCHANGED deferred
             ELSE /\ deferred' = Resolve(deferred, results')
                  /\ pgPc' = "done"
                  /\ UNCHANGED <<pagePromise, requests, qall>>
    /\ UNCHANGED <<pgOp, pgArgs, completed>>
    /\ UNCHANGED outsidePg

\* Mutant: a first page that yields no result rejects the listing.
FirstPageThenEmptyRejects ==
    /\ pgPc = "page1"
    /\ pagePromise[1].state = "fulfilled"
    /\ LET data == pagePromise[1].value
           last == data.lastPage
       IN /\ results' = PushWithId(results, data.items)
          /\ IF hasLastPage(data)
             THEN /\ pagePromise' = [p \in 1..MaxPages |->
                        IF p >= 2 /\ p < last + 1 THEN Pending ELSE pagePromise[p]]
                  /\ requests' = requests \o [i \in 1..(last - 1) |-> i + 1]
                  /\ qall' = IF last < 2 THEN Resolve(Pending, <<>>) ELSE Pending
                  /\ pgPc' = "all"
                  /\ UNCHANGED deferred
             ELSE /\ deferred' = IF results' = <<>> THEN Reject(deferred, "no items")
                                 ELSE Resolve(deferred, results')
                  /\ pgPc' = "done"
                  /\ UNCHANGED <<pagePromise, requests, qall>>
    /\ UNCHANGED <<pgOp, pgArgs, completed>>
    /\ UNCHANGED outsidePg

\* .then(function (data) {...}) on the first page: lines 114-146
FirstPageThen ==
    /\ pgPc = "page1"
    /\ pagePromise[1].state = "fulfilled"
    /\ LET data == pagePromise[1].value
           last == data.lastPage
       IN /\ results' = PushWithId(results, data.items)
          /\ IF hasLastPage(data)
             THEN /\ pagePromise' = [p \in 1..MaxPages |->
                        IF p >= 2 /\ p < last + 1 THEN Pending ELSE pagePromise[p]]
                  /\ requests' = requests \o [i \in 1..(last - 1) |-> i + 1]
                  /\ qall' = IF last < 2 THEN Resolve(Pending, <<>>) ELSE Pending
                  /\ pgPc' = "all"
                  /\ UNCHANGED deferred
             ELSE /\ deferred' = Resolve(deferred, results')
                  /\ pgPc' = "done"
                  /\ UNCHANGED <<pagePromise, requests, qall>>
    /\ UNCHANGED <<pgOp, pgArgs, completed>>
    /\ UNCHANGED outsidePg

\* Mutant: the outer chain ends without rejecting the returned promise.
FirstPageFailSwallowed ==
    /\ pgPc = "page1"
    /\ pagePromise[1].state = "rejected"
    /\ pgPc' = "done"
    /\ UNCHANGED <<pgOp, pgArgs, pagePromise, requests, completed, qall, results,
                   deferred>>
    /\ UNCHANGED outsidePg

\* the rejection handler of the outer chain is due to run
FirstPageFailDue ==
    /\ pgPc = "page1"
    /\ pagePromise[1].state = "rejected"

\* .fail(function (err) {...}) of the outer chain: lines 147-149
FirstPageFail ==
    /\ FirstPageFailDue
    /\ deferred' = Reject(deferred, pagePromise[1].reason)
    /\ pgPc' = "done"
    /\ UNCHANGED <<pgOp, pgArgs, pagePromise, requests, completed, qall, results>>
    /\ UNCHANGED outsidePg

\* Q.all(promises).then(function (allResults) {...}): lines 127-135
AllPagesThen ==
    /\ pgPc = "all"
    /\ qall.state = "fulfilled"
    /\ results' = PushPages(results, [i \in 1..Len(qall.value) |-> qall.value[i].items])
    /\ pgPc' = "pushed"
    /\ UNCHANGED <<pgOp, pgArgs, pagePromise, requests, completed, qall, deferred>>
    /\ UNCHANGED outsidePg

\* .then(function () { deferred.resolve(results); }): lines 136-138
AllPagesResolve ==
    /\ pgPc = "pushed"
    /\ deferred' = Resolve(deferred, results)
    /\ pgPc' = "done"
    /\ UNCHANGED <<pgOp, pgArgs, pagePromise, requests, completed, qall, results>>
    /\ UNCHANGED outsidePg

\* the rejection handler of the inner chain is due to run
AllPagesFailDue ==
    /\ pgPc = "all"
    /\ qall.state = "rejected"

\* .fail(function (err) { deferred.reject(err); }) of the inner chain: 139-141
AllPagesFail ==
    /\ AllPagesFailDue
    /\ deferred' = Reject(deferred, qall.reason)
    /\ pgPc' = "done"
    /\ UNCHANGED <<pgOp, pgArgs, pagePromise, requests, completed, qall, results>>
    /\ UNCHANGED outsidePg

PageInit ==
    /\ pgOp = "idle"
    /\ pgArgs = [user |-> Null]
    /\ pgPc = "idle"
    /\ pagePromise = [p \in 1..MaxPages |-> NoPromise]
    /\ requests = <<>>
    /\ completed = <<>>
    /\ qall = NoPromise
    /\ results = <<>>
    /\ deferred = NoPromise

PageNext ==
    \/ CallAllRepos
    \/ CallAllIssues
    \/ CallGetAllUserEvents
    \/ PageCallback
    \/ FirstPageThen
    \/ FirstPageFail
    \/ AllPagesThen
    \/ AllPagesResolve
    \/ AllPagesFail

\* ============================================ organization-wide operations
Org == "org"

FanOps == {"listMilestones", "listLabels", "createLabels", "deleteLabels",
           "createMilestones", "deleteMilestones", "loadAllIssues"}

\* the operations whose per-repository call is one upstream call
SingleCallOps == {"listMilestones", "listLabels", "createLabels", "deleteLabels",
                  "createMilestones"}

\* create/delete label/milestone: lines 508-512, 532-536, 557-563, 583-587
MutatingOps == {"createLabels", "deleteLabels", "createMilestones", "deleteMilestones"}

\* Q.all (listLabels line 475, loadAllIssues line 602) or Q.allSettled
JoinKind(op) == IF op \in {"listLabels", "loadAllIssues"} THEN "all" ELSE "allSettled"

\* -------------------------------------------------------- upstream data
RepoName(i) == "repo" \o ToString(i)

\* What allRepos(org) resolves with: repositories with an id and distinct names.
RepoLists == { [i \in 1..n |-> [id |-> i, name |-> RepoName(i)]] : n \in 0..MaxRepos }

\* milestone titles and label names; "2" is also a canonical array index
Titles == {"v1", "2"}

\* Milestones of one repository: numbers are unique in it, titles need not be.
MilestoneLists(r) ==
    UNION { { [j \in 1..n |-> [title |-> ts[j], number |-> j, repo |-> r]] :
                ts \in [1..n -> Titles] } : n \in 0..MaxEntities }

\* Labels of one repository: names are unique in it.
LabelLists(r) ==
    UNION { { [j \in 1..n |-> [name |-> ns[j], repo |-> r]] :
                ns \in { f \in [1..n -> Titles] :
                           \A a, b \in 1..n : a /= b => f[a] /= f[b] } }
            : n \in 0..MaxEntities }

\* What allIssues(org, repo) resolves with: issues that have an id.
IssueLists(r) == { [j \in 1..n |-> [id |-> j, repo |-> r]] : n \in 0..MaxEntities }

UpstreamError(r) == "upstream error for " \o r

\* The value the per-repository call of `op` is fulfilled with.
RepoValues(op, arg, r) ==
    CASE op = "listMilestones" -> MilestoneLists(r)
      [] op = "listLabels" -> LabelLists(r)
      [] op = "createMilestones" -> { [title |-> arg, number |-> 1, repo |-> r] }
      [] op = "loadAllIssues" -> IssueLists(r)
      [] OTHER -> {TRUE}

\* ------------------------------------------------ objects used as mappings
\* A JavaScript object with string keys: its own properties, in the order the
\* engine enumerates them (Object.keys, for-in, _.forEach).
ObjHas(obj, k) == \E i \in 1..Len(obj) : obj[i].key = k

ObjGet(obj, k) == obj[CHOOSE i \in 1..Len(obj) : obj[i].key = k].value

\* Keys that are canonical array indices ("0", "1", "2", ...) are kept by the
\* engine in ascending numeric order ahead of every other key.
LargestIndex == 10

IsArrayIndex(k) == \E n \in 0..LargestIndex : ToString(n) = k

ArrayIndex(k) == CHOOSE n \in 0..LargestIndex : ToString(n) = k

\* where the engine puts a new property k among the properties of obj
PropertyPlace(obj, k) ==
    IF IsArrayIndex(k)
    THEN Cardinality({ i \in 1..Len(obj) :
                        /\ IsArrayIndex(obj[i].key)
                        /\ ArrayIndex(obj[i].key) < ArrayIndex(k) })
    ELSE Len(obj)

\* the properties of o after o[k] = v
WithProperty(o, k, v) ==
    IF ObjHas(o, k)
    THEN [i \in 1..Len(o) |-> IF o[i].key = k THEN [key |-> k, value |-> v]
                              ELSE o[i]]
    ELSE SubSeq(o, 1, PropertyPlace(o, k))
         \o <<[key |-> k, value |-> v]>>
         \o SubSeq(o, PropertyPlace(o, k) + 1, Len(o))

\* obj[k] = v (obj is evaluated once)
ObjSet(obj, k, v) == CHOOSE r \in { WithProperty(o, k, v) : o \in {obj} } : TRUE

\* A plain object used as a property key is converted with toString().
ObjectToString(o) == "[object Object]"

\* _.pluck(list, 'name')
PluckName(list) == [i \in 1..Len(list) |-> list[i].name]

RECURSIVE ZipFrom(_, _, _, _)
ZipFrom(obj, keys, values, i) ==
    IF i > Len(keys) THEN obj
    ELSE ZipFrom(ObjSet(obj, keys[i], values[i]), keys, values, i + 1)

\* _.zipObject(props, values) with the props already converted to property keys
zipObject(keys, values) == ZipFrom(<<>>, keys, values, 1)

\* Mutant: every entity starts a fresh group, replacing the one already there.
GroupIntoOverwrite(set, k, item) == ObjSet(set, k, <<item>>)

\* if (_.has(set, key)) set[key].push(item) else set[key] = [item]: 447-451, 480-484
GroupInto(set, k, item) ==
    CHOOSE r \in { IF ObjHas(o, k) THEN ObjSet(o, k, Append(ObjGet(o, k), item))
                   ELSE ObjSet(o, k, <<item>>) : o \in {set} } : TRUE

RECURSIVE GroupMilestones(_, _)
\* _.forEach(resolvedPromise.value, ...): lines 446-452
GroupMilestones(set, milestones) ==
    IF milestones = <<>> THEN set
    ELSE GroupMilestones(GroupInto(set, Head(milestones).title, Head(milestones)),
                         Tail(milestones))

RECURSIVE GroupLabels(_, _)
\* _.forEach(labelList, ...): lines 478-485
GroupLabels(set, labels) ==
    IF labels = <<>> THEN set
    ELSE GroupLabels(GroupInto(set, Head(labels).name, Head(labels)), Tail(labels))

RECURSIVE MergeMilestonesNoSkip(_, _)
\* Mutant: a rejected repository is taken for a fulfilled one with no value
\* check, so nothing is logged for it.
MergeMilestonesNoSkip(acc, combined) ==
    IF combined = <<>> THEN acc
    ELSE MergeMilestonesNoSkip(
            [set |-> GroupMilestones(acc.set, Head(combined).value.value),
             log |-> acc.log],
            Tail(combined))

RECURSIVE MergeMilestones(_, _)
\* _.forEach(combinedResultSet, ...): lines 441-454; acc is [set, log]
MergeMilestones(acc, combined) ==
    IF combined = <<>> THEN acc
    ELSE LET key == Head(combined).key
             resolvedPromise == Head(combined).value
         IN MergeMilestones(
              IF resolvedPromise.state = "rejected"
              THEN [set |-> acc.set,
                    log |-> Append(acc.log, "error retrieving milestones for "
                                   \o key \o " " \o resolvedPromise.reason)]
              ELSE [set |-> GroupMilestones(acc.set, resolvedPromise.value),
                    log |-> acc.log],
              Tail(combined))

RECURSIVE MergeLabels(_, _)
\* _.forEach(promiseResults, ...): lines 477-486
MergeLabels(set, promiseResults) ==
    IF promiseResults = <<>> THEN set
    ELSE MergeLabels(GroupLabels(set, Head(promiseResults)), Tail(promiseResults))

\* Mutant: any milestone of the repository is taken for a match.
MatchingMilestonesAny(milestonesData, milestone) == milestonesData

\* Mutant: the matching milestones, numbered by their place among the matches.
MatchingMilestonesRenumbered(milestonesData, milestone) ==
    LET hits == SelectSeq(milestonesData,
                          LAMBDA aMilestone : aMilestone.title = milestone)
    IN [j \in 1..Len(hits) |-> [hits[j] EXCEPT !.number = j]]

\* the milestones with aMilestone.title === milestone: lines 399-400
MatchingMilestones(milestonesData, milestone) ==
    SelectSeq(milestonesData, LAMBDA aMilestone : aMilestone.title = milestone)

\* the rejection of deleteMilestoneInRepo when nothing matched: lines 421-422
NoMilestoneMessage(milestone, user, repo) ==
    "No milestone named " \o milestone \o " found in " \o user \o "/" \o repo

\* ------------------------------------------------------------------ joins
\* Mutant: fulfilled as soon as one of the promises has settled.
AllSettledStepFirst(q, ps, n) ==
    IF q.state /= "pending" THEN q
    ELSE IF \E i \in 1..n : ps[i].state \in {"fulfilled", "rejected"}
         THEN Resolve(q, [i \in 1..n |-> ps[i]])
    ELSE q

\* Q.allSettled(promises): fulfilled with the snapshots once every one settled
AllSettledStep(q, ps, n) ==
    IF q.state /= "pending" THEN q
    ELSE IF \A i \in 1..n : ps[i].state \in {"fulfilled", "rejected"}
         THEN Resolve(q, [i \in 1..n |-> ps[i]])
    ELSE q

\* The join promise after the per-repository promise i changed.
JoinStep(op, q, ps, n, i) ==
    IF JoinKind(op) = "all" THEN QAllStep(q, ps, 1, n, i)
    ELSE AllSettledStep(q, ps, n)

RepoList == reposPromise.value

Alive == uncaught = Null

\* ---------------------------------------------------------------- actions
\* the call of an organization-wide operation, up to self.allRepos(org)
StartOrgOperation(op) ==
    /\ foOp = "idle"
    /\ foOp' = op
    /\ foArg' = "v1"
    /\ foPc' = "repos"
    /\ reposPromise' = Pending
    /\ foDeferred' = Pending
    /\ UNCHANGED <<repoPromise, msPromise, msHandled, delPending, delIssued,
                   join, foResults, foLog, uncaught>>
    /\ UNCHANGED <<repoCalls, delLog, outsideFo>>

\* listMilestones, listLabels, createLabels, deleteLabels, createMilestones or
\* loadAllIssues is called
CallOrgOperation == \E op \in FanOps \ {"deleteMilestones"} : StartOrgOperation(op)

\* deleteMilestones(org, milestone) is called: lines 575-579
CallDeleteMilestones == StartOrgOperation("deleteMilestones")

\* allRepos(org) settles: rejected with the upstream error, or fulfilled with
\* the repositories that have an id
AllReposSettles ==
    /\ Alive
    /\ reposPromise.state = "pending"
    /\ \/ reposPromise' = Reject(reposPromise, UpstreamError(Org))
       \/ \E list \in RepoLists : reposPromise' = Resolve(reposPromise, list)
    /\ UNCHANGED <<foOp, foArg, foPc, repoPromise, msPromise, msHandled, delPending,
                   delIssued, join, foResults, foDeferred, foLog, uncaught>>
    /\ UNCHANGED <<repoCalls, delLog, outsideFo>>

\* Mutant: only the first repository's call is started by the handler.
ReposThenFirstOnly ==
    /\ Alive
    /\ foPc = "repos"
    /\ reposPromise.state = "fulfilled"
    /\ LET n == Len(RepoList)
       IN /\ repoPromise' = [i \in 1..MaxRepos |->
                                IF i <= n /\ i = 1 THEN Pending ELSE repoPromise[i]]
          /\ msPromise' = [i \in 1..MaxRepos |->
                                IF i <= n /\ i = 1 /\ foOp = "deleteMilestones"
                                THEN Pending ELSE msPromise[i]]
          /\ repoCalls' = [i \in 1..MaxRepos |->
                                IF i <= n /\ i = 1 THEN repoCalls[i] + 1
                                ELSE repoCalls[i]]
          /\ join' = IF n = 0 THEN Resolve(Pending, <<>>) ELSE Pending
    /\ foPc' = "join"
    /\ UNCHANGED <<foOp, foArg, reposPromise, msHandled, delPending, delIssued,
                   foResults, foDeferred, foLog, uncaught>>
    /\ UNCHANGED <<delLog, outsideFo>>

\* self.allRepos(org).then(function (repoList) {...}): the _.map that starts
\* the per-repository call for every repository, and the join over them
ReposThen ==
    /\ Alive
    /\ foPc = "repos"
    /\ reposPromise.state = "fulfilled"
    /\ LET n == Len(RepoList)
       IN /\ repoPromise' = [i \in 1..MaxRepos |->
                                IF i <= n THEN Pending ELSE repoPromise[i]]
          /\ msPromise' = [i \in 1..MaxRepos |->
                                IF i <= n /\ foOp = "deleteMilestones" THEN Pending
                                ELSE msPromise[i]]
          /\ repoCalls' = [i \in 1..MaxRepos |->
                                IF i <= n THEN repoCalls[i] + 1 ELSE repoCalls[i]]
          /\ join' = IF n = 0 THEN Resolve(Pending, <<>>) ELSE Pending
    /\ foPc' = "join"
    /\ UNCHANGED <<foOp, foArg, reposPromise, msHandled, delPending, delIssued,
                   foResults, foDeferred, foLog, uncaught>>
    /\ UNCHANGED <<delLog, outsideFo>>

\* the callback of the one upstream call of getMilestonesInRepo (258-264),
\* getLabelsInRepo (228-234), createLabelInRepo (287-297), deleteLabelInRepo
\* (316-326) or createMilestoneInRepo (345-355)
RepoCallback ==
    \E i \in 1..MaxRepos :
        /\ Alive
        /\ foOp \in SingleCallOps
        /\ repoPromise[i].state = "pending"
        /\ \E err \in {Null, UpstreamError(RepoList[i].name)} :
           \E data \in (IF err = Null THEN RepoValues(foOp, foArg, RepoList[i].name)
                        ELSE {<<>>}) :
              LET ps == [repoPromise EXCEPT
                            ![i] = IF err /= Null THEN Reject(@, err)
                                   ELSE Resolve(@, data)]
              IN /\ repoPromise' = ps
                 /\ join' = JoinStep(foOp, join, ps, Len(RepoList), i)
        /\ UNCHANGED <<foOp, foArg, foPc, reposPromise, msPromise, msHandled,
                       delPending, delIssued, foResults, foDeferred, foLog, uncaught>>
        /\ UNCHANGED <<repoCalls, delLog, outsideFo>>

\* allIssues(org, repo.name) settles (loadAllIssues, line 600)
AllIssuesSettles ==
    \E i \in 1..MaxRepos :
        /\ Alive
        /\ foOp = "loadAllIssues"
        /\ repoPromise[i].state = "pending"
        /\ \E err \in {Null, UpstreamError(RepoList[i].name)} :
           \E data \in (IF err = Null THEN RepoValues(foOp, foArg, RepoList[i].name)
                        ELSE {<<>>}) :
              LET ps == [repoPromise EXCEPT
                            ![i] = IF err /= Null THEN Reject(@, err)
                                   ELSE Resolve(@, data)]
              IN /\ repoPromise' = ps
                 /\ join' = JoinStep(foOp, join, ps, Len(RepoList), i)
        /\ UNCHANGED <<foOp, foArg, foPc, reposPromise, msPromise, msHandled,
                       delPending, delIssued, foResults, foDeferred, foLog, uncaught>>
        /\ UNCHANGED <<repoCalls, delLog, outsideFo>>

\* the callback of getAllMilestones in milestonesInRepo: lines 375-381
MilestonesInRepoCallback ==
    \E i \in 1..MaxRepos :
        /\ Alive
        /\ msPromise[i].state = "pending"
        /\ \/ msPromise' = [msPromise EXCEPT
                               ![i] = Reject(@, UpstreamError(RepoList[i].name))]
           \/ \E data \in MilestoneLists(RepoList[i].name) :
                 msPromise' = [msPromise EXCEPT ![i] = Resolve(@, data)]
        /\ UNCHANGED <<foOp, foArg, foPc, reposPromise, repoPromise, msHandled,
                       delPending, delIssued, join, foResults, foDeferred, foLog,
                       uncaught>>
        /\ UNCHANGED <<repoCalls, delLog, outsideFo>>

\* deleteMilestoneInRepo's .then(function (milestonesData) {...}): lines 397-424.
\* There is no handler for a rejected milestonesInRepo.
DeleteMilestoneInRepoThen ==
    \E i \in 1..MaxRepos :
        /\ Alive
        /\ msPromise[i].state = "fulfilled"
        /\ ~msHandled[i]
        /\ msHandled' = [msHandled EXCEPT ![i] = TRUE]
        /\ LET repo == RepoList[i].name
               hits == MatchingMilestones(msPromise[i].value, foArg)
               nochange == hits = <<>>
               ps == [repoPromise EXCEPT
                        ![i] = IF nochange
                               THEN Reject(@, NoMilestoneMessage(foArg, Org, repo))
                               ELSE @]
           IN /\ delPending' = delPending \cup
                     { <<i, hits[j].number>> : j \in 1..Len(hits) }
              /\ delIssued' = [delIssued EXCEPT ![i] = @ \o
                     [j \in 1..Len(hits) |->
                        [user |-> Org, repo |-> repo, number |-> hits[j].number]]]
              /\ repoPromise' = ps
              /\ join' = JoinStep(foOp, join, ps, Len(RepoList), i)
        /\ UNCHANGED <<foOp, foArg, foPc, reposPromise, msPromise, foResults,
                       foDeferred, foLog, uncaught>>
        /\ UNCHANGED <<repoCalls, delLog, outsideFo>>

\* "Deleted <title> for <user>/<repo>" (err = Null) or "Unable to delete
\* <title> for <user>/<repo> : <err>"; the line does not name the milestone
DeleteLine(i, err) == [repo |-> i, err |-> err]

\* deferred after one deleteMilestone callback that reported err
DeleteSettles(promise, err) ==
    IF err /= Null THEN Reject(promise, err) ELSE Resolve(promise, TRUE)

\* the callback of github.issues.deleteMilestone: lines 406-416
DeleteMilestoneCallback ==
    \E call \in delPending :
        /\ Alive
        /\ delPending' = delPending \ {call}
        /\ LET i == call[1]
           IN \E err \in {Null, UpstreamError(RepoList[i].name)} :
                LET ps == [repoPromise EXCEPT ![i] = DeleteSettles(@, err)]
                IN /\ repoPromise' = ps
                   /\ join' = JoinStep(foOp, join, ps, Len(RepoList), i)
                   /\ delLog' = [delLog EXCEPT ![i] = @ \cup {DeleteLine(i, err)}]
        /\ UNCHANGED <<foOp, foArg, foPc, reposPromise, msPromise, msHandled,
                       delIssued, foResults, foDeferred, foLog, uncaught>>
        /\ UNCHANGED <<repoCalls, outsideFo>>

\* the handler of listMilestones' Q.allSettled(promises) is due to run
ListMilestonesThenDue ==
    /\ Alive
    /\ foOp = "listMilestones"
    /\ foPc = "join"
    /\ join.state = "fulfilled"

\* listMilestones' Q.allSettled(promises).then(...): lines 437-456
ListMilestonesThen ==
    /\ ListMilestonesThenDue
    /\ LET combinedResultSet == zipObject(PluckName(RepoList), join.value)
           merged == MergeMilestones([set |-> <<>>, log |-> foLog], combinedResultSet)
       IN /\ foLog' = merged.log
          /\ foDeferred' = Resolve(foDeferred, merged.set)
    /\ foPc' = "done"
    /\ UNCHANGED <<foOp, foArg, reposPromise, repoPromise, msPromise, msHandled,
                   delPending, delIssued, join, foResults, uncaught>>
    /\ UNCHANGED <<repoCalls, delLog, outsideFo>>

\* listLabels' Q.all(promises).then(...): lines 476-488
ListLabelsThen ==
    /\ Alive
    /\ foOp = "listLabels"
    /\ foPc = "join"
    /\ join.state = "fulfilled"
    /\ foDeferred' = Resolve(foDeferred, MergeLabels(<<>>, join.value))
    /\ foPc' = "done"
    /\ UNCHANGED <<foOp, foArg, reposPromise, repoPromise, msPromise, msHandled,
                   delPending, delIssued, join, foResults, foLog, uncaught>>
    /\ UNCHANGED <<repoCalls, delLog, outsideFo>>

\* Q.allSettled(promises).then(...) of createLabels (509-512), deleteLabels
\* (533-536), createMilestones (558-563; _.compact drops no promise, all being
\* objects) and deleteMilestones (584-587): _.zipObject(repoList, promiseResults)
\* with the repository objects themselves as the keys
MutatingThen ==
    /\ Alive
    /\ foOp \in MutatingOps
    /\ foPc = "join"
    /\ join.state = "fulfilled"
    /\ LET qq == zipObject([i \in 1..Len(RepoList) |-> ObjectToString(RepoList[i])],
                           join.value)
       IN foDeferred' = Resolve(foDeferred, qq)
    /\ foPc' = "done"
    /\ UNCHANGED <<foOp, foArg, reposPromise, repoPromise, msPromise, msHandled,
                   delPending, delIssued, join, foResults, foLog, uncaught>>
    /\ UNCHANGED <<repoCalls, delLog, outsideFo>>

\* Mutant: the issue lists are pushed from the last repository to the first.
LoadAllIssuesThenReversed ==
    /\ Alive
    /\ foOp = "loadAllIssues"
    /\ foPc = "join"
    /\ join.state = "fulfilled"
    /\ LET n == Len(join.value)
       IN foResults' = foResults \o Flatten([i \in 1..n |-> join.value[n + 1 - i]])
    /\ foPc' = "pushed"
    /\ UNCHANGED <<foOp, foArg, reposPromise, repoPromise, msPromise, msHandled,
                   delPending, delIssued, join, foDeferred, foLog, uncaught>>
    /\ UNCHANGED <<repoCalls, delLog, outsideFo>>

\* loadAllIssues' Q.all(promises).then(...): lines 603-609
LoadAllIssuesThen ==
    /\ Alive
    /\ foOp = "loadAllIssues"
    /\ foPc = "join"
    /\ join.state = "fulfilled"
    /\ foResults' = foResults \o Flatten(join.value)
    /\ foPc' = "pushed"
    /\ UNCHANGED <<foOp, foArg, reposPromise, repoPromise, msPromise, msHandled,
                   delPending, delIssued, join, foDeferred, foLog, uncaught>>
    /\ UNCHANGED <<repoCalls, delLog, outsideFo>>

\* .then(function() { deferred.resolve(results); }): lines 610-612
LoadAllIssuesResolve ==
    /\ Alive
    /\ foPc = "pushed"
    /\ foDeferred' = Resolve(foDeferred, foResults)
    /\ foPc' = "done"
    /\ UNCHANGED <<foOp, foArg, reposPromise, repoPromise, msPromise, msHandled,
                   delPending, delIssued, join, foResults, foLog, uncaught>>
    /\ UNCHANGED <<repoCalls, delLog, outsideFo>>

\* .done() at the end of a chain whose Q.all was rejected (listLabels line 489,
\* loadAllIssues line 613): no handler took the rejection, so it is rethrown as
\* an uncaught exception and the process ends
JoinDone ==
    /\ Alive
    /\ foPc = "join"
    /\ join.state = "rejected"
    /\ uncaught' = join.reason
    /\ foPc' = "crashed"
    /\ UNCHANGED <<foOp, foArg, reposPromise, repoPromise, msPromise, msHandled,
                   delPending, delIssued, join, foResults, foDeferred, foLog>>
    /\ UNCHANGED <<repoCalls, delLog, outsideFo>>

FanInit ==
    /\ foOp = "idle"
    /\ foArg = Null
    /\ foPc = "idle"
    /\ reposPromise = NoPromise
    /\ repoPromise = [i \in 1..MaxRepos |-> NoPromise]
    /\ msPromise = [i \in 1..MaxRepos |-> NoPromise]
    /\ msHandled = [i \in 1..MaxRepos |-> FALSE]
    /\ delPending = {}
    /\ delIssued = [i \in 1..MaxRepos |-> <<>>]
    /\ join = NoPromise
    /\ foResults = <<>>
    /\ foDeferred = NoPromise
    /\ foLog = <<>>
    /\ uncaught = Null
    /\ repoCalls = [i \in 1..MaxRepos |-> 0]
    /\ delLog = [i \in 1..MaxRepos |-> {}]

FanNext ==
    \/ CallOrgOperation
    \/ AllReposSettles
    \/ ReposThen
    \/ RepoCallback
    \/ AllIssuesSettles
    \/ ListMilestonesThen
    \/ ListLabelsThen
    \/ MutatingThen
    \/ LoadAllIssuesThen
    \/ LoadAllIssuesResolve
    \/ JoinDone

DeleteNext ==
    \/ CallDeleteMilestones
    \/ AllReposSettles
    \/ ReposThen
    \/ MilestonesInRepoCallback
    \/ DeleteMilestoneInRepoThen
    \/ DeleteMilestoneCallback
    \/ MutatingThen

\* ===================================== release-branch bookkeeping (githelper)
\* Strings the rewrite looks into are sequences of tokens; every token is a
\* run of characters that repoRegex treats alike, so matching token by token
\* is matching character by character.
Scheme == "git+https"
Owner == "/RackHD/"
Hash == "#"

\* tokens made of [\w_-] only
WordTokens == {"on-core", "master", "release-1", "hotfix", "x"}

\* tokens made of [\w_\-\.] with at least one dot
DottedTokens == {".git", "release-0.9", "release-1.0"}

\* [\w_\-\.] of group 2 and [\w_-] of group 3
RepoNameClass == WordTokens \cup DottedTokens
BranchClass == WordTokens

Url == <<Scheme, "://github.com", Owner, "on-core">>

\* dependency values a manifest may hold
DependencyValues ==
    { Url,
      Url \o <<".git">>,
      Url \o <<Hash>>,
      Url \o <<Hash, "master">>,
      Url \o <<".git", Hash, "release-0.9">>,
      <<"^1.2.3">> }

\* branch names a caller may pass
BranchNames ==
    { <<"release-1">>, <<"release-1.0">>, <<"hotfix", Owner, "x">> }

\* length of the longest run of tokens of class cls that starts at v[i]
RunLen(v, i, cls) ==
    CHOOSE n \in 0..(Len(v) + 1 - i) :
        /\ \A j \in i..(i + n - 1) : v[j] \in cls
        /\ (i + n > Len(v) \/ v[i + n] \notin cls)

\* repoRegex anchored with the literal /RackHD/ at v[k]:
\* ([\w_\-\.]+)#*([\w_-]*)$ on the rest, every quantifier greedy
RestAt(v, k) ==
    LET n2 == RunLen(v, k + 1, RepoNameClass)
        h == RunLen(v, k + 1 + n2, {Hash})
        n3 == RunLen(v, k + 1 + n2 + h, BranchClass)
    IN  [ok |-> n2 >= 1 /\ k + n2 + h + n3 = Len(v),
         g2 |-> SubSeq(v, k + 1, k + n2),
         g3 |-> SubSeq(v, k + 1 + n2 + h, Len(v))]

NoMatch == [matched |-> FALSE, g1 |-> <<>>, g2 |-> <<>>, g3 |-> <<>>]

\* repoRegex.exec(value): the greedy .* of group 1 ends at the last /RackHD/
\* after which the rest matches
repoRegexExec(v) ==
    LET ks == { k \in 2..Len(v) : v[1] = Scheme /\ v[k] = Owner /\ RestAt(v, k).ok }
    IN  IF ks = {} THEN NoMatch
        ELSE LET k == CHOOSE x \in ks : \A y \in ks : y <= x
             IN  [matched |-> TRUE, g1 |-> SubSeq(v, 1, k),
                  g2 |-> RestAt(v, k).g2, g3 |-> RestAt(v, k).g3]

\* a JavaScript string is truthy unless it is empty
Truthy(str) == str /= <<>>

Warning(section, key, branch) ==
    [kind |-> "WARNING", section |-> section, key |-> key, text |-> branch]

Setting(section, key, value) ==
    [kind |-> "setting", section |-> section, key |-> key, text |-> value]

RewriteValueNoHash(match, branchname) ==
    match.g1 \o match.g2 \o branchname

\* match[1] + match[2] + "#" + branchname
RewriteValue(match, branchname) ==
    match.g1 \o match.g2 \o <<Hash>> \o branchname

\* the callback _.forEach runs for entry i of one mapping; acc = [obj, log]
RewriteEntry(acc, i, section, branchname, vb) ==
    LET key == acc.obj[i].key
        match == repoRegexExec(acc.obj[i].value)
    IN  IF ~match.matched THEN acc
        ELSE IF Truthy(match.g3)
        THEN [acc EXCEPT !.log = Append(@, Warning(section, key, match.g3))]
        ELSE LET value == RewriteValue(match, branchname)
             IN  [obj |-> [acc.obj EXCEPT ![i].value = value],
                  log |-> IF vb THEN Append(acc.log, Setting(section, key, value))
                          ELSE acc.log]

RECURSIVE RewriteEntries(_, _, _, _, _)
RewriteEntries(acc, i, section, branchname, vb) ==
    IF i > Len(acc.obj) THEN acc
    ELSE RewriteEntries(RewriteEntry(acc, i, section, branchname, vb),
                        i + 1, section, branchname, vb)

\* _.forEach(packagedata[section], ...); acc = [doc, log]
RewriteSection(acc, section, branchname, vb) ==
    IF ~Has(acc.doc, section) THEN acc
    ELSE LET r == RewriteEntries([obj |-> acc.doc[section], log |-> acc.log],
                                 1, section, branchname, vb)
         IN  [doc |-> [acc.doc EXCEPT ![section] = r.obj], log |-> r.log]

\* the third handler of the chain: dependencies first, then devDependencies
RewritePackage(packagedata, branchname, vb) ==
    RewriteSection(
        RewriteSection([doc |-> packagedata, log |-> <<>>],
                       "dependencies", branchname, vb),
        "devDependencies", branchname, vb)

\* JSON text: what JSON.parse needs to know of it
JsonInvalid(text) == text.format = "invalid"
JsonParse(text) == text.doc
\* JSON.stringify(value, null, 2)
JsonStringify(value) == [format |-> "indent2", doc |-> value]

DepKey(i) == "dep" \o ToString(i)

\* the mappings a manifest may hold under dependencies / devDependencies
DependencyObjects ==
    UNION { { [i \in 1..n |-> [key |-> DepKey(i), value |-> f[i]]]
              : f \in [1..n -> DependencyValues] } : n \in 0..MaxDeps }

Manifests ==
    { [name |-> "pkg"] }
    \cup { [name |-> "pkg", dependencies |-> d] : d \in DependencyObjects }
    \cup { [name |-> "pkg", devDependencies |-> d] : d \in DependencyObjects }
    \cup { [name |-> "pkg", dependencies |-> d, devDependencies |-> e]
           : d \in DependencyObjects, e \in DependencyObjects }

\* what package.json may hold when the tool starts
ManifestTexts ==
    { [format |-> fmt, doc |-> m] : fmt \in {"indent2", "indent4"}, m \in Manifests }
    \cup { [format |-> "invalid", doc |-> [name |-> "pkg"]] }

\* how a child process ends: exit status 0, a non-zero exit status, or killed
\* by a signal (an error without a code)
ExecOutcomes == {"ok", "exit", "signal"}

\* Subprocess.prototype.run's exec callback rejects on an error with a code
SubprocessRejects(outcome, ignoreErrorCode) ==
    outcome = "exit" /\ ~ignoreErrorCode

CommandError(command) == <<"Error running command: ">> \o command

ReadFile == [op |-> "readFile", command |-> <<>>]
WriteFile == [op |-> "writeFile", command |-> <<>>]
Exec(command) == [op |-> "exec", command |-> command]

GitCommit(branchname) == <<"git commit -a -m '">> \o branchname \o <<"'">>
GitPush(branchname) == <<"git push origin ">> \o branchname

\* what Subprocess.prototype.run prints before and after the command
Running(command) ==
    IF verbose
    THEN <<[kind |-> "running", section |-> "", key |-> "", text |-> command]>>
    ELSE <<>>

Output(command) ==
    IF verbose
    THEN <<[kind |-> "stdout", section |-> "", key |-> "", text |-> command],
           [kind |-> "stderr", section |-> "", key |-> "", text |-> command]>>
    ELSE <<>>

\* updatePackageToBranch(branchname, cwd, nconf) up to the readFile it issues
CallUpdatePackageToBranch ==
    /\ ghPc \in {"idle", "done"}
    /\ ghRuns < MaxRuns
    /\ \E branchname \in BranchNames \cup {<<>>}, cwd \in {"", "/ws/on-core"} :
        /\ ghBranch' = branchname
        /\ ghCwd' = cwd
        /\ IF ~Truthy(branchname) \/ cwd = ""
           THEN /\ ghPromise' = Reject(Pending, "Invalid args: ")
                /\ ghPc' = "done"
                /\ ghIssued' = <<>>
           ELSE /\ ghPromise' = Pending
                /\ ghPc' = "read"
                /\ ghIssued' = <<ReadFile>>
    /\ ghRuns' = ghRuns + 1
    /\ ghLog' = <<>>
    /\ ghData' = Null
    /\ UNCHANGED <<verbose, ghFile, ghWritten>>
    /\ UNCHANGED outsideGh

\* the callback of fs.readFile
ReadFileCallback ==
    /\ ghPc = "read"
    /\ \E err \in BOOLEAN :
        IF err
        THEN /\ ghPromise' = Reject(ghPromise, "ENOENT")
             /\ ghPc' = "done"
             /\ UNCHANGED ghData
        ELSE /\ ghData' = ghFile
             /\ ghPc' = "parse"
             /\ UNCHANGED ghPromise
    /\ UNCHANGED <<verbose, ghRuns, ghBranch, ghCwd, ghFile, ghIssued, ghLog, ghWritten>>
    /\ UNCHANGED outsideGh

\* .then(function (data) { return JSON.parse(data); })
ParseThen ==
    /\ ghPc = "parse"
    /\ IF JsonInvalid(ghData)
       THEN /\ ghPromise' = Reject(ghPromise, "SyntaxError")
            /\ ghPc' = "done"
            /\ UNCHANGED ghData
       ELSE /\ ghData' = JsonParse(ghData)
            /\ ghPc' = "rewrite"
            /\ UNCHANGED ghPromise
    /\ UNCHANGED <<verbose, ghRuns, ghBranch, ghCwd, ghFile, ghIssued, ghLog, ghWritten>>
    /\ UNCHANGED outsideGh

\* .then(function (packagedata) { _.forEach(...); _.forEach(...); return packagedata; })
RewriteThen ==
    /\ ghPc = "rewrite"
    /\ LET r == RewritePackage(ghData, ghBranch, verbose)
       IN  /\ ghData' = r.doc
           /\ ghLog' = ghLog \o r.log
    /\ ghPc' = "write"
    /\ UNCHANGED <<verbose, ghRuns, ghBranch, ghCwd, ghFile, ghIssued, ghPromise, ghWritten>>
    /\ UNCHANGED outsideGh

\* .then(function (packagedata) { return Q.nfcall(fs.writeFile, ...); })
WriteThen ==
    /\ ghPc = "write"
    /\ ghIssued' = Append(ghIssued, WriteFile)
    /\ ghPc' = "writing"
    /\ UNCHANGED <<verbose, ghRuns, ghBranch, ghCwd, ghFile, ghData, ghPromise, ghLog,
                   ghWritten>>
    /\ UNCHANGED outsideGh

\* the callback of fs.writeFile; a failed write leaves the old text or a
\* truncated one
WriteFileCallback ==
    /\ ghPc = "writing"
    /\ \E outcome \in {"ok", "untouched", "truncated"} :
        IF outcome = "ok"
        THEN /\ ghFile' = JsonStringify(ghData)
             /\ ghWritten' = Append(ghWritten, ghData)
             /\ ghPc' = "commit"
             /\ UNCHANGED ghPromise
        ELSE /\ ghFile' = IF outcome = "untouched" THEN ghFile
                          ELSE [format |-> "invalid", doc |-> [name |-> "pkg"]]
             /\ ghPromise' = Reject(ghPromise, "EIO")
             /\ ghPc' = "done"
             /\ UNCHANGED ghWritten
    /\ UNCHANGED <<verbose, ghRuns, ghBranch, ghCwd, ghData, ghIssued, ghLog>>
    /\ UNCHANGED outsideGh

\* a handler that starts a Subprocess: run() prints and calls exec
RunThen(pc, command, next) ==
    /\ ghPc = pc
    /\ ghIssued' = Append(ghIssued, Exec(command))
    /\ ghLog' = ghLog \o Running(command)
    /\ ghPc' = next
    /\ UNCHANGED <<verbose, ghRuns, ghBranch, ghCwd, ghFile, ghData, ghPromise, ghWritten>>
    /\ UNCHANGED outsideGh

\* .then(function() { return new Subprocess("git commit -a -m '"+branchname+"'", ...).run() ... })
CommitThen == RunThen("commit", GitCommit(ghBranch), "committing")

\* .then(function() { return new Subprocess("git push origin " + branchname, ...).run(); })
PushThen == RunThen("push", GitPush(ghBranch), "pushing")

\* the exec callback of Subprocess.prototype.run for the command in flight
ExecCallback(pc, command, next) ==
    /\ ghPc = pc
    /\ \E outcome \in ExecOutcomes :
        IF SubprocessRejects(outcome, FALSE)
        THEN /\ ghPromise' = Reject(ghPromise, CommandError(command))
             /\ ghPc' = "done"
             /\ UNCHANGED <<ghData, ghLog>>
        ELSE /\ ghLog' = ghLog \o Output(command)
             /\ ghData' = [stdout |-> outcome, stderr |-> outcome, code |-> Null]
             /\ ghPc' = next
             /\ ghPromise' = IF next = "done" THEN Resolve(ghPromise, ghData')
                             ELSE ghPromise
    /\ UNCHANGED <<verbose, ghRuns, ghBranch, ghCwd, ghFile, ghIssued, ghWritten>>
    /\ UNCHANGED outsideGh

CommitCallback == ExecCallback("committing", GitCommit(ghBranch), "push")

PushCallback == ExecCallback("pushing", GitPush(ghBranch), "done")

\* before any call of updatePackageToBranch, for a given configuration and
\* package.json
GitStart(vb, text) ==
    /\ verbose = vb
    /\ ghFile = text
    /\ ghRuns = 0
    /\ ghBranch = <<>>
    /\ ghCwd = ""
    /\ ghPc = "idle"
    /\ ghData = Null
    /\ ghIssued = <<>>
    /\ ghPromise = NoPromise
    /\ ghLog = <<>>
    /\ ghWritten = <<>>

GitInit == \E vb \in BOOLEAN, text \in ManifestTexts : GitStart(vb, text)

\* the GitHub operations never look at a package.json
GitIdle == GitStart(FALSE, [format |-> "indent2", doc |-> [name |-> "pkg"]])

GitNext ==
    \/ CallUpdatePackageToBranch
    \/ ReadFileCallback
    \/ ParseThen
    \/ RewriteThen
    \/ WriteThen
    \/ WriteFileCallback
    \/ CommitThen
    \/ CommitCallback
    \/ PushThen
    \/ PushCallback

\* ------------------------------------------------------- Subprocess.run
\* the commands githelper builds a Subprocess for
Commands ==
    {"git fetch --all --prune", "git pull --rebase", "git clone --recursive",
     "git checkout master", "git reset --hard origin/master", "git status -s"}

\* new Subprocess(command, options): opt.cwd, opt.verbose and opt.ignore are
\* kept; cwd is "" when the caller gave none
Subprocesses ==
    [command : Commands, cwd : {"", "/ws/on-core"}, verbose : BOOLEAN,
     ignoreErrorCode : BOOLEAN]

\* commandResult as handed to resolve
CommandResult(command, outcome) ==
    [stdout |-> <<command, outcome>>, stderr |-> <<>>, code |-> Null]

\* run(): lines 34-54 and the call of exec
Run ==
    /\ spPc = "idle"
    /\ \E self \in Subprocesses :
          /\ spSelf' = self
          /\ spLog' = IF self.verbose
                      THEN <<<<"[running]", self.cwd, self.command>>>> ELSE <<>>
    /\ spPromise' = Pending
    /\ spPc' = "running"
    /\ UNCHANGED spError
    /\ UNCHANGED outsideSp

\* the callback of exec: lines 56-70
RunCallback ==
    /\ spPc = "running"
    /\ \E outcome \in ExecOutcomes :
          /\ spError' = outcome
          /\ IF SubprocessRejects(outcome, spSelf.ignoreErrorCode)
             THEN /\ spPromise' = Reject(spPromise, CommandError(<<spSelf.command>>))
                  /\ UNCHANGED spLog
             ELSE /\ spPromise' = Resolve(spPromise,
                                          CommandResult(spSelf.command, outcome))
                  /\ spLog' = IF spSelf.verbose
                              THEN spLog \o <<<<"stdout">>, <<"stderr">>>>
                              ELSE spLog
    /\ spPc' = "done"
    /\ UNCHANGED spSelf
    /\ UNCHANGED outsideSp

SpInit ==
    /\ spSelf = [command |-> "", cwd |-> "", verbose |-> FALSE,
                 ignoreErrorCode |-> FALSE]
    /\ spPc = "idle"
    /\ spError = Null
    /\ spPromise = NoPromise
    /\ spLog = <<>>

SpNext == Run \/ RunCallback

\* ------------------------------------------------- workspace commands
\* checkout-workspace, reset-workspace and make-release-branch of the command
\* line tool. The operation of one workspace entry is followed step by step:
\* each step is one file-system call or one child process, whose callback
\* either ends the operation or starts its next step.
WorkspaceCommands == {"checkout-workspace", "reset-workspace", "make-release-branch"}

WorkspaceKeys == {"on-core", "on-http", "2"}

\* <branchname> as given on the command line, possibly the empty string
BranchArguments == {<<>>, <<"release-1">>}

RepositoryOf(key) == <<"https://github.com/RackHD/", key>>

\* the key orders a workspace.json of up to MaxEntries entries can be written in
KeyOrders ==
    UNION { { ks \in [1..n -> WorkspaceKeys] :
                \A i, j \in 1..n : i /= j => ks[i] /= ks[j] } : n \in 0..MaxEntries }

\* JSON.parse(data) of workspace.json: directory name -> repository
Workfiles ==
    { zipObject(ks, [i \in 1..Len(ks) |-> RepositoryOf(ks[i])]) : ks \in KeyOrders }

WorkspaceUnreadable == <<"ENOENT: workspace.json">>

WorkspaceInvalid == <<"SyntaxError: Unexpected token">>

\* the githelper function a command runs for every entry in a phase
PhaseOperation(cmd, phase) ==
    IF phase = 2 THEN "updatePackageToBranch"
    ELSE CASE cmd = "checkout-workspace" -> "cloneOrPull"
           [] cmd = "reset-workspace" -> "resetToMaster"
           [] cmd = "make-release-branch" -> "createBranch"

FsSteps == {"fs.exists", "readFile", "writeFile"}

PullSteps == <<"git fetch --all --prune", "git pull --rebase">>

CloneSteps == <<"git clone --recursive">>

\* the steps of an operation, in the order its promise chain runs them
Plan(op) ==
    CASE op = "cloneOrPull" -> <<"fs.exists">>
      [] op = "resetToMaster" ->
            <<"git fetch --all --prune", "git checkout master",
              "git reset --hard origin/master">>
      [] op = "createBranch" -> <<"git checkout -b", "git push origin">>
      [] op = "updatePackageToBranch" ->
            <<"readFile", "writeFile", "git commit -a -m", "git push origin">>

\* how a step can end: fs.exists answers, readFile may fail or deliver text
\* that JSON.parse rejects, writeFile may fail, a child process ends
StepOutcomes(step) ==
    CASE step = "fs.exists" -> {"yes", "no"}
      [] step = "readFile" -> {"ok", "error", "invalid"}
      [] step = "writeFile" -> {"ok", "error"}
      [] OTHER -> ExecOutcomes

StepFails(step, outcome) ==
    IF step \in FsSteps THEN outcome \in {"error", "invalid"}
    ELSE SubprocessRejects(outcome, FALSE)

StepError(step, outcome) ==
    IF step \in FsSteps THEN <<step, outcome>> ELSE CommandError(<<step>>)

\* the promise an operation returns at its call
OperationPromise(op, branchname) ==
    IF op \in {"createBranch", "updatePackageToBranch"} /\ ~Truthy(branchname)
    THEN Reject(Pending, <<"Invalid args: ">> \o branchname)
    ELSE Pending

\* the steps ahead of an operation at its call
OperationSteps(op, branchname) ==
    IF OperationPromise(op, branchname).state = "pending" THEN Plan(op) ELSE <<>>

\* Q.allSettled(promises) has resolved
AllEntriesSettled(phase) ==
    \A i \in 1..Len(wsKeys) : wsPromise[phase][i].state \in {"fulfilled", "rejected"}

StatusLine(phase, key, status) ==
    [kind |-> "status", phase |-> phase, key |-> key, text |-> <<status>>]

ReasonLine(phase, key, reason) ==
    [kind |-> "reason", phase |-> phase, key |-> key, text |-> reason]

\* what the report loop prints for one property of qq
EntryLines(phase, key, resolvedPromise) ==
    IF resolvedPromise.state = "rejected"
    THEN <<StatusLine(phase, key, "FAILED"),
           ReasonLine(phase, key, resolvedPromise.reason)>>
    ELSE <<StatusLine(phase, key, "OK")>>

\* Mutant: the report loop stops after the first FAILED entry.
ReportLinesUntilFailure(phase, qq) ==
    LET stop == IF \E j \in 1..Len(qq) : qq[j].value.state = "rejected"
                THEN CHOOSE j \in 1..Len(qq) :
                        /\ qq[j].value.state = "rejected"
                        /\ \A k \in 1..(j - 1) : qq[k].value.state /= "rejected"
                ELSE Len(qq)
    IN Flatten([j \in 1..stop |-> EntryLines(phase, qq[j].key, qq[j].value)])

\* _.forEach(qq, function (resolvedPromise, key) {...})
ReportLines(phase, qq) ==
    Flatten([j \in 1..Len(qq) |-> EntryLines(phase, qq[j].key, qq[j].value)])

\* .action(function () { readWorkspace()... }): the command is run
CallWorkspaceCommand ==
    /\ wsPc = "idle"
    /\ \E cmd \in WorkspaceCommands :
       \E b \in (IF cmd = "make-release-branch" THEN BranchArguments ELSE {<<>>}) :
          /\ wsCmd' = cmd
          /\ wsBranch' = b
    /\ wsFile' = Pending
    /\ wsPc' = "read"
    /\ UNCHANGED <<wsKeys, wsTodo, wsPromise, wsLog, wsErr>>
    /\ UNCHANGED outsideWs

\* readWorkspace: fs.readFile's callback, then JSON.parse or the .fail handler
ReadWorkspaceCallback ==
    /\ wsPc = "read"
    /\ wsFile.state = "pending"
    /\ \/ \E workfile \in Workfiles : wsFile' = Resolve(wsFile, workfile)
       \/ \E err \in {WorkspaceUnreadable, WorkspaceInvalid} :
             wsFile' = Reject(wsFile, err)
    /\ UNCHANGED <<wsCmd, wsBranch, wsPc, wsKeys, wsTodo, wsPromise, wsLog, wsErr>>
    /\ UNCHANGED outsideWs

\* the _.map over the workspace: the operation of every entry is called
StartPhase(phase, workfile) ==
    LET op == PhaseOperation(wsCmd, phase)
        n == Len(workfile)
    IN /\ wsKeys' = [i \in 1..n |-> workfile[i].key]
       /\ wsPromise' = [wsPromise EXCEPT ![phase] =
             [i \in 1..MaxEntries |->
                IF i <= n THEN OperationPromise(op, wsBranch) ELSE NoPromise]]
       /\ wsTodo' = [i \in 1..MaxEntries |->
             IF i <= n THEN OperationSteps(op, wsBranch) ELSE <<>>]

\* readWorkspace().then(function (workfile) {...}) of the three commands
WorkspaceThen ==
    /\ wsPc = "read"
    /\ wsFile.state = "fulfilled"
    /\ StartPhase(1, wsFile.value)
    /\ wsPc' = "phase1"
    /\ UNCHANGED <<wsCmd, wsBranch, wsFile, wsLog, wsErr>>
    /\ UNCHANGED outsideWs

\* .fail(function (err) {...}) of the three commands
WorkspaceFail ==
    /\ wsPc = "read"
    /\ wsFile.state = "rejected"
    /\ wsErr' = Append(wsErr, <<"Unable to ", wsCmd>> \o wsFile.reason)
    /\ wsPc' = "failed"
    /\ UNCHANGED <<wsCmd, wsBranch, wsFile, wsKeys, wsTodo, wsPromise, wsLog>>
    /\ UNCHANGED outsideWs

\* the phase whose operations are running
Phase == IF wsPc = "phase2" THEN 2 ELSE 1

\* The callback of the step in flight for entry i: the operation is rejected,
\* or goes on with its next step, or is resolved after its last step.
StepCallback ==
    \E i \in 1..MaxEntries :
        /\ wsPc \in {"phase1", "phase2"}
        /\ wsTodo[i] /= <<>>
        /\ LET step == Head(wsTodo[i])
           IN \E outcome \in StepOutcomes(step) :
                 LET rest == IF step = "fs.exists"
                             THEN (IF outcome = "yes" THEN PullSteps ELSE CloneSteps)
                             ELSE Tail(wsTodo[i])
                 IN IF StepFails(step, outcome)
                    THEN /\ wsTodo' = [wsTodo EXCEPT ![i] = <<>>]
                         /\ wsPromise' = [wsPromise EXCEPT ![Phase][i] =
                                             Reject(@, StepError(step, outcome))]
                    ELSE /\ wsTodo' = [wsTodo EXCEPT ![i] = rest]
                         /\ wsPromise' = [wsPromise EXCEPT ![Phase][i] =
                               IF rest = <<>> THEN Resolve(@, <<step>>) ELSE @]
        /\ UNCHANGED <<wsCmd, wsBranch, wsPc, wsFile, wsKeys, wsLog, wsErr>>
        /\ UNCHANGED outsideWs

\* Q.allSettled(promises).then(function (results) {...}): the report of a phase
PhaseReport ==
    /\ wsPc \in {"phase1", "phase2"}
    /\ AllEntriesSettled(Phase)
    /\ LET snapshots == [i \in 1..Len(wsKeys) |-> wsPromise[Phase][i]]
           qq == zipObject(wsKeys, snapshots)
       IN wsLog' = wsLog \o ReportLines(Phase, qq)
    /\ wsPc' = IF wsCmd = "make-release-branch" /\ Phase = 1 THEN "reported1"
               ELSE "done"
    /\ UNCHANGED <<wsCmd, wsBranch, wsFile, wsKeys, wsTodo, wsPromise, wsErr>>
    /\ UNCHANGED outsideWs

\* make-release-branch's second .then(function () {...}): the manifests
ReleaseBranchThen ==
    /\ wsPc = "reported1"
    /\ StartPhase(2, wsFile.value)
    /\ wsPc' = "phase2"
    /\ UNCHANGED <<wsCmd, wsBranch, wsFile, wsLog, wsErr>>
    /\ UNCHANGED outsideWs

WsInit ==
    /\ wsCmd = "idle"
    /\ wsBranch = <<>>
    /\ wsPc = "idle"
    /\ wsFile = NoPromise
    /\ wsKeys = <<>>
    /\ wsTodo = [i \in 1..MaxEntries |-> <<>>]
    /\ wsPromise = [phase \in 1..2 |-> [i \in 1..MaxEntries |-> NoPromise]]
    /\ wsLog = <<>>
    /\ wsErr = <<>>

WsNext ==
    \/ CallWorkspaceCommand
    \/ ReadWorkspaceCallback
    \/ WorkspaceThen
    \/ WorkspaceFail
    \/ StepCallback
    \/ PhaseReport
    \/ ReleaseBranchThen

\* ------------------------------------------- githelper functions, called
\* cloneOrPull, resetToMaster and createBranch called on their own, every
\* callback and every handler of their promise chains a step of its own.
HelperOps == {"cloneOrPull", "resetToMaster", "createBranch"}

\* the arguments a call can be given; cloneOrPull checks none of them
HelperArgs(op) ==
    [cwd : {"", "/ws"},
     dirname : IF op = "cloneOrPull" THEN WorkspaceKeys ELSE {""},
     branchname : IF op = "createBranch" THEN BranchArguments ELSE {<<>>}]

\* What is issued for a step: the command and the directory it is given to
\* run in. cloneOrPull runs fetch and pull in cwd + "/" + dirname and gives
\* clone the dirname as an argument and no directory.
Issue(op, args, step) ==
    [command |-> step,
     argument |-> IF step = "git clone --recursive" THEN args.dirname ELSE "",
     cwd |-> CASE step \in {"fs.exists", "git clone --recursive"} -> <<>>
               [] op = "cloneOrPull" -> <<args.cwd, "/", args.dirname>>
               [] OTHER -> <<args.cwd>>]

\* the argument check at the head of the function
ArgumentError(op, args) ==
    CASE op = "resetToMaster" /\ args.cwd = "" -> <<"Invalid cwd: ">>
      [] op = "createBranch" /\ (~Truthy(args.branchname) \/ args.cwd = "") ->
            <<"Invalid args: ">> \o args.branchname
      [] OTHER -> <<>>

\* the function is called: it rejects its arguments or issues its first step
CallHelper ==
    /\ hpPc = "idle"
    /\ \E op \in HelperOps : \E args \in HelperArgs(op) :
          /\ hpOp' = op
          /\ hpArgs' = args
          /\ IF ArgumentError(op, args) /= <<>>
             THEN /\ hpPromise' = Reject(Pending, ArgumentError(op, args))
                  /\ hpPc' = "done"
                  /\ UNCHANGED <<hpTodo, hpIssued, hpRun>>
             ELSE /\ hpPromise' = Pending
                  /\ hpTodo' = Plan(op)
                  /\ hpIssued' = <<Issue(op, args, Head(Plan(op)))>>
                  /\ hpPc' = IF op = "cloneOrPull" THEN "exists" ELSE "running"
                  /\ hpRun' = IF op = "cloneOrPull" THEN NoPromise ELSE Pending
    /\ UNCHANGED hpExists
    /\ UNCHANGED outsideHp

\* fs.exists(gitDir + "/.git", function (exists) {...}): the first command of
\* the path taken is issued
ExistsCallback ==
    /\ hpPc = "exists"
    /\ \E exists \in BOOLEAN :
          /\ hpExists' = IF exists THEN "yes" ELSE "no"
          /\ hpTodo' = IF exists THEN PullSteps ELSE CloneSteps
          /\ hpIssued' = Append(hpIssued, Issue(hpOp, hpArgs, Head(hpTodo')))
    /\ hpRun' = Pending
    /\ hpPc' = "running"
    /\ UNCHANGED <<hpOp, hpArgs, hpPromise>>
    /\ UNCHANGED outsideHp

\* the exec callback of the command in flight settles its run() promise
HelperExecCallback ==
    /\ hpPc = "running"
    /\ \E outcome \in ExecOutcomes :
          hpRun' = IF SubprocessRejects(outcome, FALSE)
                   THEN Reject(hpRun, CommandError(<<Head(hpTodo)>>))
                   ELSE Resolve(hpRun, CommandResult(Head(hpTodo), outcome))
    /\ hpPc' = "settled"
    /\ UNCHANGED <<hpOp, hpArgs, hpTodo, hpIssued, hpPromise, hpExists>>
    /\ UNCHANGED outsideHp

\* The handler behind the run() promise: .then issues the next command or
\* hands the last result on; a rejection passes every .then and settles the
\* returned promise (through .fail in cloneOrPull).
HelperThen ==
    /\ hpPc = "settled"
    /\ IF hpRun.state = "fulfilled" /\ Tail(hpTodo) /= <<>>
       THEN /\ hpTodo' = Tail(hpTodo)
            /\ hpIssued' = Append(hpIssued, Issue(hpOp, hpArgs, Head(hpTodo')))
            /\ hpRun' = Pending
            /\ hpPc' = "running"
            /\ UNCHANGED hpPromise
       ELSE /\ hpPromise' = IF hpRun.state = "fulfilled"
                            THEN Resolve(hpPromise, hpRun.value)
                            ELSE Reject(hpPromise, hpRun.reason)
            /\ hpPc' = "done"
            /\ UNCHANGED <<hpTodo, hpIssued, hpRun>>
    /\ UNCHANGED <<hpOp, hpArgs, hpExists>>
    /\ UNCHANGED outsideHp

HpInit ==
    /\ hpOp = "idle"
    /\ hpArgs = [cwd |-> "", dirname |-> "", branchname |-> <<>>]
    /\ hpPc = "idle"
    /\ hpTodo = <<>>
    /\ hpIssued = <<>>
    /\ hpRun = NoPromise
    /\ hpPromise = NoPromise
    /\ hpExists = Null

HpNext ==
    \/ CallHelper
    \/ ExistsCallback
    \/ HelperExecCallback
    \/ HelperThen

Init == PageInit /\ FanInit /\ GitIdle /\ WsInit /\ SpInit /\ HpInit

\* one paginated listing, from its call to its settling
PageSpec == Init /\ [][PageNext]_vars

\* one organization-wide operation other than deleteMilestones, from its call
\* to its settling
FanSpec == Init /\ [][FanNext]_vars

\* deleteMilestones, from its call to its settling
DeleteSpec == Init /\ [][DeleteNext]_vars

\* Every upstream call eventually invokes its callback and every handler of a
\* settled promise is eventually run.
FairFanSpec == FanSpec /\ WF_vars(FanNext)

FairDeleteSpec == DeleteSpec /\ WF_vars(DeleteNext)

\* any one organization-wide operation, from its call to its settling
OrgNext == FanNext \/ DeleteNext

OrgSpec == Init /\ [][OrgNext]_vars

\* any configuration and any package.json, the GitHub operations not in use
GitSpecInit == PageInit /\ FanInit /\ GitInit /\ WsInit /\ SpInit /\ HpInit

\* updatePackageToBranch run on one package.json, once or again
GitSpec == GitSpecInit /\ [][GitNext]_vars

\* one workspace command, from its invocation to its last report
WsSpec == Init /\ [][WsNext]_vars

\* one Subprocess, from run() to the callback of exec
RunSpec == Init /\ [][SpNext]_vars

\* one call of cloneOrPull, resetToMaster or createBranch
HelperSpec == Init /\ [][HpNext]_vars

\* ================================================================ claims
\* ---------------------------------------------------- paginated listings
\* allIssues was called with a user and a repo (the other two take one name)
ArgsGiven == pgOp = "allIssues" => (pgArgs.user /= Null /\ pgArgs.repo /= Null)

Page1Data == pagePromise[1].value

\* the pages of a listing whose first page announced a last page
AnnouncedPages == 1..(IF Page1Data.lastPage < 2 THEN 1 ELSE Page1Data.lastPage)

\* the items of page p as the upstream callback delivered them
ItemsOf(p) == pagePromise[p].value.items

WithId(items) == SelectSeq(items, LAMBDA x : "id" \in DOMAIN x)

\* C2 as stated: when page 1 announces a last page k and every page request
\* succeeds, the resolved sequence is exactly the concatenation of the items of
\* pages 1..k in page-number order, whatever the completion order of pages 2..k.
C2_AllItemsInPageOrder ==
    (/\ deferred.state = "fulfilled"
     /\ hasLastPage(Page1Data))
    => deferred.value = Flatten([p \in AnnouncedPages |-> ItemsOf(p)])

\* C2 amended: the resolved sequence is the concatenation, in page-number order
\* and keeping each page's own order, of those items of pages 1..k that have an
\* `id`, whatever the completion order of pages 2..k.
C2_ItemsWithIdInPageOrder ==
    (/\ deferred.state = "fulfilled"
     /\ hasLastPage(Page1Data))
    => deferred.value = Flatten([p \in AnnouncedPages |-> WithId(ItemsOf(p))])

\* three full pages, page 3 answered before page 2, one item without an id
C2_Witness ==
    /\ deferred.state = "fulfilled"
    /\ hasLastPage(Page1Data)
    /\ Page1Data.lastPage = 3
    /\ completed = <<1, 3, 2>>
    /\ \A p \in 1..3 : Len(ItemsOf(p)) = 2
    /\ Len(deferred.value) = 5

C9_LaterPageFailureRejects ==
    (\E p \in 2..MaxPages : pagePromise[p].state = "rejected")
    => /\ deferred.state /= "fulfilled"
       /\ \/ AllPagesFailDue
          \/ deferred.state = "rejected"

\* page 3 failed after page 2 had succeeded, and the operation is rejected
C9_Witness ==
    /\ pgPc = "done"
    /\ completed = <<1, 2, 3>>
    /\ pagePromise[2].state = "fulfilled"
    /\ Len(ItemsOf(2)) > 0
    /\ pagePromise[3].state = "rejected"
    /\ deferred.state = "rejected"
    /\ deferred.reason = PageError(3)

\* --------------------------------------------- organization-wide operations

\* the repositories the operation fanned out to, by index in repoList
Launched == IF foPc \in {"join", "pushed", "done", "crashed"}
            THEN 1..Len(RepoList) ELSE {}

Failed == { i \in Launched : repoPromise[i].state = "rejected" }

Succeeded == { i \in Launched : repoPromise[i].state = "fulfilled" }

\* every entity a successful per-repository fetch returned
Fetched == UNION { Range(repoPromise[i].value) : i \in Succeeded }

\* every entity held by a grouped index
IndexItems(index) == UNION { Range(index[g].value) : g \in 1..Len(index) }

\* C1: createLabels, deleteLabels, createMilestones and deleteMilestones resolve
\* (never reject) with a mapping of exactly n entries, one per repository and
\* keyed by its name, tagged rejected or fulfilled as that repository's call was.
C1_OneEntryPerRepositoryByName ==
    (foOp \in MutatingOps /\ foPc = "done")
    => /\ foDeferred.state = "fulfilled"
       /\ Len(foDeferred.value) = Len(RepoList)
       /\ \A i \in 1..Len(RepoList) :
             /\ ObjHas(foDeferred.value, RepoList[i].name)
             /\ ObjGet(foDeferred.value, RepoList[i].name).state
                    = repoPromise[i].state

\* C3: once the repository enumeration has succeeded, the promise returned by
\* deleteMilestones eventually resolves with the settled-result mapping, also
\* when milestonesInRepo fails for some repository.
C3_DeleteMilestonesEventuallyResolves ==
    (foOp = "deleteMilestones" /\ reposPromise.state = "fulfilled")
    ~> (foDeferred.state = "fulfilled")

\* C4: if the repository enumeration fails, the promise returned by the
\* organization-wide operation is eventually rejected with that error.
C4_EnumerationFailureRejects ==
    (reposPromise.state = "rejected")
    ~> (foDeferred.state = "rejected" /\ foDeferred.reason = reposPromise.reason)

\* C5: when the label fetch fails for some repositories and succeeds for the
\* others, listLabels still resolves, with an index built from exactly the
\* labels of the repositories whose fetch succeeded.
C5_ListLabelsIsolatesFailures ==
    (/\ foOp = "listLabels"
     /\ foPc = "join"
     /\ Failed /= {}
     /\ Failed \cup Succeeded = Launched)
    ~> (/\ foOp = "listLabels"
        /\ foDeferred.state = "fulfilled"
        /\ IndexItems(foDeferred.value) = Fetched)

\* C6: listMilestones, when some repository's milestone fetch fails, resolves
\* (its handler is scheduled or has run; it never rejects) with an index that
\* holds the milestones of exactly the repositories whose fetch succeeded, and
\* logs exactly one error per failed repository, naming it.
C6_ListMilestonesSkipsFailedRepositories ==
    (/\ foOp = "listMilestones"
     /\ Failed /= {}
     /\ Failed \cup Succeeded = Launched)
    => /\ foDeferred.state /= "rejected"
       /\ \/ ListMilestonesThenDue
          \/ /\ foDeferred.state = "fulfilled"
             /\ IndexItems(foDeferred.value) = Fetched
             /\ \A m \in IndexItems(foDeferred.value) :
                   \A i \in Failed : m.repo /= RepoList[i].name
             /\ Len(foLog) = Cardinality(Failed)
             /\ \A i \in Failed :
                   Cardinality({ k \in 1..Len(foLog) :
                       foLog[k] = "error retrieving milestones for "
                                  \o RepoList[i].name \o " "
                                  \o repoPromise[i].reason }) = 1

\* the first repository failed, the second returned milestones
C6_Witness ==
    /\ foOp = "listMilestones"
    /\ foDeferred.state = "fulfilled"
    /\ Len(RepoList) = 2
    /\ Failed = {1}
    /\ Len(repoPromise[2].value) = 2
    /\ Len(foLog) = 1

\* the key an entity is grouped under: a milestone's title, a label's name
GroupKey(item) == IF foOp = "listMilestones" THEN item.title ELSE item.name

\* C7: in the index resolved by listMilestones and by listLabels every entity
\* of a successful per-repository fetch appears exactly once, in the group of
\* its own key and in no other, and the index holds nothing that was not fetched.
C7_IndexHoldsEachEntityOnce ==
    (foOp \in {"listMilestones", "listLabels"} /\ foDeferred.state = "fulfilled")
    => LET index == foDeferred.value
           places(e) == { <<g, j>> \in (1..Len(index)) \X (1..MaxRepos * MaxEntities) :
                            j <= Len(index[g].value) /\ index[g].value[j] = e }
       IN /\ \A a, b \in 1..Len(index) : a /= b => index[a].key /= index[b].key
          /\ \A g \in 1..Len(index) :
                \A e \in Range(index[g].value) : GroupKey(e) = index[g].key
          /\ \A e \in Fetched : Cardinality(places(e)) = 1
          /\ IndexItems(index) \subseteq Fetched

\* two repositories, two titles, one title in both repositories
C7_Witness ==
    /\ foOp = "listMilestones"
    /\ foDeferred.state = "fulfilled"
    /\ Succeeded = {1, 2}
    /\ Len(foDeferred.value) = 2
    /\ \E g \in 1..2 :
          /\ Len(foDeferred.value[g].value) >= 2
          /\ \E a, b \in Range(foDeferred.value[g].value) : a.repo /= b.repo

\* C10: deleteMilestoneInRepo(user, repo, title), when the milestone list was
\* fetched and holds no milestone with that title, rejects (once its handler
\* has run) with "No milestone named <title> found in <user>/<repo>" and issues
\* no deleteMilestone call.
C10_NoMatchRejectsWithoutDelete ==
    \A i \in 1..MaxRepos :
        (/\ msPromise[i].state = "fulfilled"
         /\ \A m \in Range(msPromise[i].value) : m.title /= foArg)
        => /\ delIssued[i] = <<>>
           /\ \A call \in delPending : call[1] /= i
           /\ repoPromise[i].state /= "fulfilled"
           /\ \/ ~msHandled[i]
              \/ /\ repoPromise[i].state = "rejected"
                 /\ repoPromise[i].reason =
                        "No milestone named " \o foArg \o " found in " \o Org
                        \o "/" \o RepoList[i].name

\* a repository whose only milestones carry another title
C10_Witness ==
    /\ msPromise[1].state = "fulfilled"
    /\ msHandled[1]
    /\ Len(msPromise[1].value) = 2
    /\ \A m \in Range(msPromise[1].value) : m.title = "2"
    /\ repoPromise[1].state = "rejected"
    /\ repoPromise[1].reason = "No milestone named v1 found in org/repo1"

\* ------------------------------------------------ release-branch bookkeeping
Sections == {"dependencies", "devDependencies"}

\* the packagedata the current run parsed, while its rewrite is not yet written
ManifestRead == ghFile.doc

\* the rewrite handler of the current run has run and nothing was written yet
Rewritten == ghPc = "write"

\* <scheme-prefix><owner>/<repo-name>: a repository reference without any `#`
IsReference(v) ==
    /\ v /= <<>>
    /\ v[1] = Scheme
    /\ \A j \in 1..Len(v) : v[j] /= Hash
    /\ \E o \in 2..(Len(v) - 1) :
        /\ v[o] = Owner
        /\ \A j \in (o + 1)..Len(v) : v[j] \in RepoNameClass

\* <scheme-prefix><owner>/<repo-name>#<existing-branch>
CarriesBranchSuffix(v) ==
    \E k \in 2..(Len(v) - 1) : v[k] = Hash /\ IsReference(SubSeq(v, 1, k - 1))

Warned(section, key) ==
    \E l \in 1..Len(ghLog) :
        /\ ghLog[l].kind = "WARNING"
        /\ ghLog[l].section = section
        /\ ghLog[l].key = key

\* C11: every dependency or devDependency value that is a repository reference
\* with a branch suffix (for example #release-0.9) is left unchanged by the
\* rewrite and a warning is emitted for that entry.
C11_PinnedValueKeptWithWarning ==
    Rewritten =>
        \A s \in Sections : Has(ManifestRead, s) =>
            \A i \in 1..Len(ManifestRead[s]) :
                CarriesBranchSuffix(ManifestRead[s][i].value) =>
                    /\ ghData[s][i].value = ManifestRead[s][i].value
                    /\ Warned(s, ManifestRead[s][i].key)

\* C12: every dependency or devDependency value that is a repository reference
\* without a branch suffix is rewritten, for branch name b, to the original
\* value followed by # and b.
C12_UnpinnedValueGetsBranch ==
    Rewritten =>
        \A s \in Sections : Has(ManifestRead, s) =>
            \A i \in 1..Len(ManifestRead[s]) :
                IsReference(ManifestRead[s][i].value) =>
                    ghData[s][i].value =
                        ManifestRead[s][i].value \o <<Hash>> \o ghBranch

\* a run with the dotted branch name release-1.0 met an unpinned reference in
\* each mapping and appended #release-1.0 to both
C12_Witness ==
    /\ Rewritten
    /\ ghBranch = <<"release-1.0">>
    /\ \A s \in Sections :
        /\ Has(ManifestRead, s)
        /\ \E i \in 1..Len(ManifestRead[s]) :
            /\ IsReference(ManifestRead[s][i].value)
            /\ ghData[s][i].value /= ManifestRead[s][i].value
            /\ ghData[s][i].value[Len(ghData[s][i].value)] = "release-1.0"

\* the dependency and devDependency values of a packagedata
DependencyValuesOf(doc) ==
    [s \in Sections |-> IF Has(doc, s) THEN doc[s] ELSE <<>>]

\* C13: applying the rewrite with b1 and then with b2 gives the same dependency
\* and devDependency values as applying it with b1 alone: what a later run
\* writes equals what the run before it wrote.
C13_LaterRunKeepsPins ==
    \A r \in 2..Len(ghWritten) :
        DependencyValuesOf(ghWritten[r]) = DependencyValuesOf(ghWritten[r - 1])

\* ------------------------------------------------------------ key order
\* the entities the grouping handler went through, in the order it did
GroupedInput ==
    Flatten([i \in 1..Len(RepoList) |->
                IF repoPromise[i].state = "fulfilled" THEN repoPromise[i].value
                ELSE <<>>])

RECURSIVE FirstSeen(_, _)
\* the keys of items in order of first occurrence
FirstSeen(items, seen) ==
    IF items = <<>> THEN seen
    ELSE FirstSeen(Tail(items),
                   IF \E j \in 1..Len(seen) : seen[j] = GroupKey(Head(items))
                   THEN seen ELSE Append(seen, GroupKey(Head(items))))

\* C14: the mapping resolved by listMilestones and by listLabels lists its keys
\* in the order in which each key first occurs in the input, for any key
\* strings, integer-looking titles included, and each key's group holds its
\* items in their original relative order.
C14_KeysInFirstSeenOrder ==
    (foOp \in {"listMilestones", "listLabels"} /\ foDeferred.state = "fulfilled")
    => LET index == foDeferred.value
       IN /\ [g \in 1..Len(index) |-> index[g].key] = FirstSeen(GroupedInput, <<>>)
          /\ \A g \in 1..Len(index) :
                index[g].value =
                    SelectSeq(GroupedInput, LAMBDA e : GroupKey(e) = index[g].key)

\* ------------------------------------------------------ fan-out scheduling
AllSettledOps == { op \in FanOps : JoinKind(op) = "allSettled" }

Settled(p) == p.state \in {"fulfilled", "rejected"}

\* C15: in every fan-out joined with allSettled (listMilestones, createLabels,
\* deleteLabels, createMilestones, deleteMilestones) the operation's promise is
\* resolved only when every per-repository call has settled, never while one
\* of them is still pending.
C15_ResolvesAfterAllSettled ==
    (foOp \in AllSettledOps /\ foDeferred.state = "fulfilled")
    => \A i \in 1..Len(RepoList) : Settled(repoPromise[i])

\* a fan-out over two repositories resolved after one call failed and the
\* other succeeded
C15_Witness ==
    /\ foOp \in AllSettledOps
    /\ foDeferred.state = "fulfilled"
    /\ Len(RepoList) = 2
    /\ repoPromise[1].state = "rejected"
    /\ repoPromise[2].state = "fulfilled"

\* C16: once the repository list is known the per-repository call is launched
\* for every repository before the response of any of them is processed: as
\* soon as one call is launched or one response has come in, every repository
\* of the list has had its call launched, exactly once.
C16_AllLaunchedBeforeAnyResponse ==
    (\E i \in 1..MaxRepos :
        \/ repoCalls[i] > 0
        \/ repoPromise[i].state /= "none"
        \/ msPromise[i].state /= "none")
    => \A j \in 1..Len(RepoList) :
          /\ repoCalls[j] = 1
          /\ repoPromise[j].state /= "none"

\* two repositories, both calls in flight and no response yet
C16_Witness ==
    /\ foPc = "join"
    /\ Len(RepoList) = 2
    /\ \A j \in 1..2 : repoCalls[j] = 1 /\ repoPromise[j].state = "pending"

\* the rejection of repository i's call is part of what the fulfilled operation
\* reports: an entry of the resolved mapping that is i's rejected snapshot, or
\* (listMilestones) the console.error line for it
ReportedRejected(i) ==
    IF foOp = "listMilestones"
    THEN \E l \in 1..Len(foLog) :
            foLog[l] = "error retrieving milestones for " \o RepoList[i].name
                       \o " " \o repoPromise[i].reason
    ELSE \E g \in 1..Len(foDeferred.value) :
            /\ foDeferred.value[g].value.state = "rejected"
            /\ foDeferred.value[g].value.reason = repoPromise[i].reason

\* C17: within one invocation of createLabels, deleteLabels, createMilestones,
\* listLabels or listMilestones the per-repository upstream call is issued
\* exactly once per repository, and a repository whose call was rejected is
\* reported as rejected by the operation's result.
C17_CalledOnceRejectedReported ==
    foOp \in {"createLabels", "deleteLabels", "createMilestones", "listLabels",
              "listMilestones"}
    => /\ \A i \in 1..MaxRepos : repoCalls[i] <= 1
       /\ \A i \in Launched : repoCalls[i] = 1
       /\ foDeferred.state = "fulfilled"
          => \A i \in 1..Len(RepoList) :
                repoPromise[i].state = "rejected" => ReportedRejected(i)

\* C18: in a fan-out the failure of one repository's call neither cancels nor
\* changes the calls of the other repositories: a call still in flight can
\* always complete, and the outcome recorded for a repository by the join is
\* the outcome of its own call.
C18_NoCrossCallInterference ==
    /\ \A i \in Launched : repoPromise[i].state = "pending" => Alive
    /\ (JoinKind(foOp) = "allSettled" /\ join.state = "fulfilled")
       => \A i \in 1..Len(RepoList) :
             /\ join.value[i].state = repoPromise[i].state
             /\ join.value[i].reason = repoPromise[i].reason
             /\ join.value[i].state = "fulfilled"
                => join.value[i].value = repoPromise[i].value

\* ------------------------------------------------------- page scheduling
\* C19: no request for a page numbered 2 or higher is issued before the
\* response to the page-1 request has been received: the first request is the
\* one for page 1, and when a further request exists the callback of page 1
\* was the first to run.
C19_PageOneAnsweredFirst ==
    /\ requests /= <<>> => requests[1] = 1
    /\ (\E k \in 1..Len(requests) : requests[k] >= 2)
       => (completed /= <<>> /\ completed[1] = 1)

\* pages 2 and 3 have just been requested, only page 1 has been answered
C19_Witness ==
    /\ requests = <<1, 2, 3>>
    /\ completed = <<1>>
    /\ pagePromise[2].state = "pending"
    /\ pagePromise[3].state = "pending"

\* the handler of the first page has run on a successful response
FirstPageHandled == pgPc \in {"all", "pushed", "done"} /\ pagePromise[1].state = "fulfilled"

\* what C20 says about the requests: one per page 2..L when page 1 announces
\* L >= 2, none besides page 1 when it carries no indicator, and never another
\* request before the first page was handled
RequestsAsAnnounced ==
    /\ ~FirstPageHandled => Len(requests) <= 1
    /\ (FirstPageHandled /\ Page1Data.lastPage >= 2)
       => requests = [i \in 1..Page1Data.lastPage |-> i]
    /\ (FirstPageHandled /\ ~hasLastPage(Page1Data)) => requests = <<1>>
    /\ (\E p \in 2..MaxPages : p \in Range(completed))
       => requests = [i \in 1..Page1Data.lastPage |-> i]

\* C20 as stated: exactly one request for each page 2..L, all issued before any
\* of their responses is handled, page 1 never requested again and no page
\* above L requested; without an indicator on page 1 exactly one request is
\* made and the operation resolves with page 1's items.
C20_RequestsAndPageOneItems ==
    /\ RequestsAsAnnounced
    /\ (FirstPageHandled /\ ~hasLastPage(Page1Data))
       => (deferred.state = "fulfilled" /\ deferred.value = ItemsOf(1))

\* C20 amended: without an indicator on page 1 the operation resolves with the
\* items of page 1 that have an id.
C20_RequestsAndPageOneItemsWithId ==
    /\ RequestsAsAnnounced
    /\ (FirstPageHandled /\ ~hasLastPage(Page1Data))
       => (deferred.state = "fulfilled" /\ deferred.value = WithId(ItemsOf(1)))

\* page 1 announced 3 pages; pages 2 and 3 were requested once each and
\* answered in the opposite order, and the listing resolved
C20_Witness ==
    /\ pgPc = "done"
    /\ deferred.state = "fulfilled"
    /\ Page1Data.lastPage = 3
    /\ requests = <<1, 2, 3>>
    /\ completed = <<1, 3, 2>>

\* ------------------------------------------------------ malformed entries
\* the pages whose request was answered without error
PagesFetched == { p \in Range(requests) : pagePromise[p].state = "fulfilled" }

\* C21: an item lacking an id on any page is omitted from the result and never
\* causes a rejection: every item of the resolved sequence has an id, every
\* item with an id on a fetched page is present, and the listing is rejected
\* only when a page request failed or an argument was missing.
C21_ItemsWithoutIdDropped ==
    /\ deferred.state = "fulfilled"
       => /\ \A x \in Range(deferred.value) : Has(x, "id")
          /\ \A p \in PagesFetched : \A x \in Range(ItemsOf(p)) :
                Has(x, "id") => x \in Range(deferred.value)
    /\ deferred.state = "rejected"
       => (~ArgsGiven \/ \E p \in 1..MaxPages : pagePromise[p].state = "rejected")
    /\ (pgPc = "done" /\ ArgsGiven
        /\ \A p \in 1..MaxPages : pagePromise[p].state /= "rejected")
       => deferred.state = "fulfilled"

\* a listing resolved although page 1 and page 2 each carried an item without
\* an id next to one with an id
C21_Witness ==
    /\ deferred.state = "fulfilled"
    /\ Len(requests) >= 2
    /\ \A p \in {1, 2} :
          /\ \E x \in Range(ItemsOf(p)) : ~Has(x, "id")
          /\ \E x \in Range(ItemsOf(p)) : Has(x, "id") /\ x \in Range(deferred.value)

\* every page that was requested answered without error and without items
NoItemsReported ==
    /\ pgPc = "done"
    /\ \A p \in Range(requests) :
          pagePromise[p].state = "fulfilled" /\ ItemsOf(p) = <<>>

\* C22: a paginated listing whose endpoint reports zero items resolves with an
\* empty sequence and does not reject.
C22_ZeroItemsResolveEmpty ==
    NoItemsReported => (deferred.state = "fulfilled" /\ deferred.value = <<>>)

\* the only page came back empty and the listing has resolved
C22_Witness ==
    /\ NoItemsReported
    /\ requests = <<1>>
    /\ completed = <<1>>
    /\ deferred.state = "fulfilled"

\* ------------------------------------------------------ loadAllIssues
\* the issue sequences of the repositories, in enumeration order
IssueSequences == [i \in 1..Len(RepoList) |-> repoPromise[i].value]

\* C23: when the repository enumeration and every repository's issue fetch
\* succeed, loadAllIssues resolves with the concatenation, in enumeration
\* order, of the repositories' issue sequences, and every fetched issue
\* appears exactly once.
C23_FlatConcatenationInRepoOrder ==
    (foOp = "loadAllIssues" /\ foDeferred.state = "fulfilled")
    => /\ reposPromise.state = "fulfilled"
       /\ Succeeded = 1..Len(RepoList)
       /\ foDeferred.value = Flatten(IssueSequences)
       /\ \A x \in Fetched :
             Cardinality({ k \in 1..Len(foDeferred.value) : foDeferred.value[k] = x }) = 1
       /\ Range(foDeferred.value) = Fetched

\* loadAllIssues resolved over two repositories that each had two issues
C23_Witness ==
    /\ foOp = "loadAllIssues"
    /\ foDeferred.state = "fulfilled"
    /\ Len(RepoList) = 2
    /\ \A i \in 1..2 : Len(repoPromise[i].value) = 2
    /\ Len(foDeferred.value) = 4

\* ------------------------------------------------------ workspace commands
\* updatePackageToBranch has been called for entry i
RewriteStarted(i) == wsPromise[2][i].state /= "none"

\* C24: in make-release-branch the manifest rewrite of an entry is started
\* only after the entry's createBranch has settled, and is not run for an
\* entry whose createBranch failed.
C24_RewriteOnlyAfterBranchCreated ==
    \A i \in 1..MaxEntries :
        RewriteStarted(i) => wsPromise[1][i].state = "fulfilled"

\* the part of C24 about the order alone
C24_RewriteAfterBranchSettled ==
    \A i \in 1..MaxEntries :
        RewriteStarted(i) => wsPromise[1][i].state \in {"fulfilled", "rejected"}

\* the report of the phase has been printed
Reported(phase) ==
    IF phase = 1 THEN wsPc \in {"reported1", "phase2", "done"}
    ELSE wsCmd = "make-release-branch" /\ wsPc = "done"

\* positions in the console output of the status lines of a phase for a key
StatusPositions(phase, key) ==
    { j \in 1..Len(wsLog) : /\ wsLog[j].kind = "status"
                            /\ wsLog[j].phase = phase
                            /\ wsLog[j].key = key }

\* C26: for each phase a workspace command reports exactly one status per
\* workspace entry, after all entries of the phase have settled: FAILED and
\* the failure reason exactly when the entry's operation was rejected, OK
\* otherwise, whatever happened to the other entries.
C26_OneStatusPerEntry ==
    \A phase \in 1..2 :
        /\ (\E j \in 1..Len(wsLog) : wsLog[j].phase = phase)
           => (Reported(phase) /\ AllEntriesSettled(phase))
        /\ Reported(phase)
           => /\ \A i \in 1..Len(wsKeys) :
                   LET at == StatusPositions(phase, wsKeys[i])
                       j == CHOOSE j \in at : TRUE
                       rejected == wsPromise[phase][i].state = "rejected"
                   IN /\ Cardinality(at) = 1
                      /\ wsLog[j].text = (IF rejected THEN <<"FAILED">> ELSE <<"OK">>)
                      /\ rejected
                         => /\ j < Len(wsLog)
                            /\ wsLog[j + 1] = ReasonLine(phase, wsKeys[i],
                                                         wsPromise[phase][i].reason)
              /\ Cardinality({ j \in 1..Len(wsLog) :
                                 wsLog[j].phase = phase /\ wsLog[j].kind = "reason" })
                 = Cardinality({ i \in 1..Len(wsKeys) :
                                   wsPromise[phase][i].state = "rejected" })
              /\ \A j \in 1..Len(wsLog) :
                    wsLog[j].phase = phase => wsLog[j].key \in Range(wsKeys)

\* make-release-branch has printed both reports for two entries, the entry
\* listed first having failed in the first phase and the other one not
C26_Witness ==
    /\ wsCmd = "make-release-branch"
    /\ wsPc = "done"
    /\ Len(wsKeys) = 2
    /\ wsPromise[1][1].state = "rejected"
    /\ wsPromise[1][2].state = "fulfilled"
    /\ wsPromise[2][2].state = "rejected"
    /\ Len(wsLog) = 6

\* ------------------------------------------------------ frame of the rewrite
\* the rewrite left entry i of mapping s as it was read
EntryKept(s, i) == ghData[s][i] = ManifestRead[s][i]

\* no key of the manifest or of its two mappings was added, removed or moved,
\* and every key other than the two mappings kept its value
KeysKept ==
    /\ DOMAIN ghData = DOMAIN ManifestRead
    /\ \A k \in DOMAIN ManifestRead \ Sections : ghData[k] = ManifestRead[k]
    /\ \A s \in Sections : Has(ManifestRead, s) =>
          /\ Len(ghData[s]) = Len(ManifestRead[s])
          /\ \A i \in 1..Len(ManifestRead[s]) :
                ghData[s][i].key = ManifestRead[s][i].key

\* C25: the rewrite changes only entries of dependencies and devDependencies
\* whose value is a repository reference with no branch suffix; every other
\* key and every non-matching or already-pinned value is written back
\* unchanged, and no key is added or removed.
C25_OnlyUnpinnedReferencesChange ==
    Rewritten =>
        /\ KeysKept
        /\ \A s \in Sections : Has(ManifestRead, s) =>
              \A i \in 1..Len(ManifestRead[s]) :
                  ~IsReference(ManifestRead[s][i].value) => EntryKept(s, i)

\* the part of C25 about keys alone
C25_KeysKept == Rewritten => KeysKept

\* C25 for values other than a reference followed by a bare `#` and a pinned
\* reference whose branch name holds the owner segment
C25_OtherValuesKept ==
    Rewritten =>
        \A s \in Sections : Has(ManifestRead, s) =>
            \A i \in 1..Len(ManifestRead[s]) :
                LET v == ManifestRead[s][i].value
                IN (/\ ~IsReference(v)
                    /\ v[Len(v)] /= Hash
                    /\ ~\E h, o \in 1..Len(v) : h < o /\ v[h] = Hash /\ v[o] = Owner)
                   => EntryKept(s, i)

\* ------------------------------------------------------ settling
\* C27: loadAllIssues always settles: its promise is eventually resolved or
\* rejected, and it is rejected when the issue fetch of a repository fails.
C27_LoadAllIssuesSettles ==
    /\ (foOp = "loadAllIssues")
       ~> (foDeferred.state \in {"fulfilled", "rejected"})
    /\ (foOp = "loadAllIssues" /\ Failed /= {})
       ~> (foDeferred.state = "rejected")

\* the part of C27 for runs in which the enumeration succeeds and no issue
\* fetch has failed or will fail
C27_SettlesWithoutFailure ==
    (foOp = "loadAllIssues" /\ reposPromise.state = "fulfilled")
    ~> (foDeferred.state = "fulfilled" \/ Failed /= {})

\* ------------------------------------------------------ single-page wrappers
\* the listing fetches its pages with issues() or repos()
WrapperInUse == pgOp \in {"allRepos", "allIssues"}

\* the upstream callback of page p runs in this step
CallbackRuns(p) == p \notin Range(completed) /\ p \in Range(completed')

\* the promise is settled the way a callback for page p can report
SettledByCallback(promise, p) ==
    \/ promise.state = "rejected" /\ promise.reason = PageError(p)
    \/ promise.state = "fulfilled" /\ promise.value \in PageData(p)

\* what C28 says of one step of the listing
WrapperStep ==
    \A p \in 1..MaxPages :
        /\ CallbackRuns(p) => SettledByCallback(pagePromise'[p], p)
        /\ p \in Range(completed) => pagePromise'[p] = pagePromise[p]

\* C28: issues() and repos() settle exactly once and according to the upstream
\* callback: rejected with the callback's error and never fulfilled when it
\* reports one, fulfilled with the returned data when it reports none.
C28_SettledOnceByCallback == [][WrapperInUse => WrapperStep]_vars

\* C28 for calls that were given their arguments
C28_SettledOnceByCallbackWithArgs ==
    [][(WrapperInUse /\ ArgsGiven) => WrapperStep]_vars

\* C29: issues() and allIssues() called with a missing user or a missing repo
\* reject with "No user specified" / "No repo specified" and issue no
\* upstream API request.
C29_MissingArgsRejectWithoutRequest ==
    (pgOp = "allIssues" /\ ~ArgsGiven)
    => /\ deferred.state = "rejected"
       /\ pagePromise[1].state = "rejected"
       /\ deferred.reason = (IF pgArgs.user = Null THEN "No user specified"
                             ELSE "No repo specified")
       /\ pagePromise[1].reason = deferred.reason
       /\ requests = <<>>

\* the part of C29 about the rejection alone
C29_MissingArgsReject ==
    (pgOp = "allIssues" /\ ~ArgsGiven)
    => /\ deferred.state = "rejected"
       /\ pagePromise[1].state = "rejected"
       /\ deferred.reason = (IF pgArgs.user = Null THEN "No user specified"
                             ELSE "No repo specified")
       /\ pagePromise[1].reason = deferred.reason

\* ------------------------------------------------------ milestone deletion
\* C30: deleteMilestoneInRepo(user, repo, title) only ever issues
\* deleteMilestone calls for milestones of that repository whose title equals
\* the given title, with that milestone's own number; a milestone with any
\* other title is never deleted.
C30_DeletesOnlyExactTitle ==
    \A i \in 1..MaxRepos :
        /\ \A call \in Range(delIssued[i]) :
              /\ call.user = Org
              /\ call.repo = RepoList[i].name
              /\ msPromise[i].state = "fulfilled"
              /\ \E m \in Range(msPromise[i].value) :
                    /\ m.number = call.number
                    /\ m.title = foArg
                    /\ m.repo = call.repo
        /\ \A call \in delPending :
              call[1] = i => \E c \in Range(delIssued[i]) : c.number = call[2]
        /\ msPromise[i].state = "fulfilled"
           => \A m \in Range(msPromise[i].value) :
                 m.title /= foArg
                 => \A call \in Range(delIssued[i]) : call.number /= m.number

\* a repository with a milestone of another title (number 1) and one of the
\* given title (number 2): exactly the second one's deletion was issued
C30_Witness ==
    /\ msPromise[1].state = "fulfilled"
    /\ msHandled[1]
    /\ Len(msPromise[1].value) = 2
    /\ msPromise[1].value[1].title /= foArg
    /\ msPromise[1].value[2].title = foArg
    /\ delIssued[1] = <<[user |-> Org, repo |-> RepoList[1].name, number |-> 2]>>

\* ------------------------------------------------------ order of the deletes
\* every deleteMilestone call issued for repository i has been answered
AllDeletesAnswered(i) ==
    /\ msHandled[i]
    /\ delIssued[i] /= <<>>
    /\ \A call \in delPending : call[1] /= i

SameOutcome(p, q) == p.state = q.state /\ (p.state = "rejected" => p.reason = q.reason)

\* the promise of deleteMilestoneInRepo had the callback that wrote line been
\* the first to fire
SettledFirstBy(line) == DeleteSettles(Pending, line.err)

\* C31: for a fixed milestone list and fixed outcomes of the individual
\* deleteMilestone calls, the promise of deleteMilestoneInRepo settles the
\* same way whatever the order in which the delete callbacks fire: whichever
\* of the answers received had come first, the promise would be settled the
\* way it is.
C31_OutcomeIndependentOfOrder ==
    \A i \in 1..MaxRepos :
        AllDeletesAnswered(i)
        => \A line \in delLog[i] : SameOutcome(SettledFirstBy(line), repoPromise[i])

\* the promise is settled the way one of the answers received settles it
C31_SettledAsAnswered ==
    \A i \in 1..MaxRepos :
        AllDeletesAnswered(i)
        => \E line \in delLog[i] : SameOutcome(SettledFirstBy(line), repoPromise[i])

\* C31 for repositories in which the deletes all ended the same way
C31_UniformOutcomes ==
    \A i \in 1..MaxRepos :
        (AllDeletesAnswered(i) /\ Cardinality(delLog[i]) = 1)
        => \A line \in delLog[i] : SameOutcome(SettledFirstBy(line), repoPromise[i])

\* ------------------------------------------------------ child processes
\* C35: Subprocess.run never reports a failed command as success: whenever
\* exec reports an error (non-zero exit code, or termination by signal or
\* timeout with no exit code) and the ignore option is not set, the promise is
\* rejected; it is fulfilled only when the command completed without error or
\* the ignore option is set.
C35_FailedCommandRejects ==
    spPc = "done"
    => /\ (spError /= "ok" /\ ~spSelf.ignoreErrorCode) => spPromise.state = "rejected"
       /\ spPromise.state = "fulfilled" => (spError = "ok" \/ spSelf.ignoreErrorCode)

\* C35 for commands that ended with an exit code
C35_ExitCodeRejects ==
    (spPc = "done" /\ spError /= "signal")
    => /\ (spError /= "ok" /\ ~spSelf.ignoreErrorCode) => spPromise.state = "rejected"
       /\ spPromise.state = "fulfilled" => (spError = "ok" \/ spSelf.ignoreErrorCode)

\* ------------------------------------------------------ order of the steps
\* what updatePackageToBranch issues for branch b, in order
StepsOf(b) == <<ReadFile, WriteFile, Exec(GitCommit(b)), Exec(GitPush(b))>>

IsPrefix(a, b) == Len(a) <= Len(b) /\ a = SubSeq(b, 1, Len(a))

\* this step issues `git commit` / `git push origin <branch>`
IssuesCommit == ghPc = "commit" /\ ghPc' = "committing"

IssuesPush == ghPc = "push" /\ ghPc' = "pushing"

\* this step is the exec callback of the command in flight
CommandAnswered == ghPc \in {"committing", "pushing"} /\ ghPc' /= ghPc

CommandInFlight == IF ghPc = "committing" THEN GitCommit(ghBranch) ELSE GitPush(ghBranch)

\* one step of updatePackageToBranch, where a command counts as succeeded
\* when it ended in one of the given ways
OrderedStep(succeeded) ==
    /\ IsPrefix(ghIssued', StepsOf(ghBranch'))
    /\ IssuesCommit => (ghWritten /= <<>> /\ ghFile = JsonStringify(ghData))
    /\ IssuesPush => ghData.stdout \in succeeded
    /\ CommandAnswered
       => \/ /\ ghPromise'.state = "rejected"
             /\ ghPromise'.reason = CommandError(CommandInFlight)
             /\ ghPc' = "done"
          \/ /\ ghPromise'.state /= "rejected"
             /\ ghData'.stdout \in succeeded
    /\ ghPromise'.state = "rejected" => ghPc' = "done"
    /\ (ghPc = "done" /\ ghRuns' = ghRuns) => ghIssued' = ghIssued

\* C32: updatePackageToBranch reads the manifest, rewrites it, writes it, runs
\* `git commit` and then `git push origin <branch>`, each step only after the
\* one before it succeeded; a failure of any step rejects the returned promise
\* with that failure and no later step runs.
C32_StepsInOrder == [][OrderedStep({"ok"})]_vars

\* C32 with a command that was killed by a signal taken for succeeded
C32_StepsInOrderButForSignals == [][OrderedStep({"ok", "signal"})]_vars

\* ------------------------------------------------------ git helpers
\* the commands issued so far, in order
CommandsIssued(issued) == [k \in 1..Len(issued) |-> issued[k].command]

\* this step issues a command after an earlier one
IssuesNext == Len(hpIssued') > Len(hpIssued) /\ hpRun.state /= "none"

\* this step is the exec callback of the command in flight
HelperAnswered == hpPc = "running" /\ hpPc' = "settled"

\* the run() promise is fulfilled by a command that ended in one of the ways
FulfilledBy(run, succeeded) ==
    run.state = "fulfilled" /\ run.value.stdout[2] \in succeeded

\* What C33 and C34 share, for one step of a call: a command is issued only
\* after the one before it succeeded, a failed command rejects its run() with
\* the command's error, which becomes the rejection of the returned promise
\* with no further command, and a settled promise stays as it is.
ChainStep(succeeded) ==
    /\ IssuesNext => FulfilledBy(hpRun, succeeded)
    /\ HelperAnswered
       => \/ hpRun' = Reject(Pending, CommandError(<<Head(hpTodo)>>))
          \/ FulfilledBy(hpRun', succeeded)
    /\ (hpPc = "settled" /\ hpRun.state = "rejected")
       => /\ hpPromise'.state = "rejected"
          /\ hpPromise'.reason = hpRun.reason
          /\ hpIssued' = hpIssued
    /\ hpPromise.state \in {"fulfilled", "rejected"} => hpPromise' = hpPromise
    /\ (hpPromise.state = "pending" /\ hpPromise'.state = "fulfilled")
       => /\ FulfilledBy(hpRun, succeeded)
          /\ hpPromise'.value = hpRun.value
          /\ hpRun.value.stdout[1] = hpIssued[Len(hpIssued)].command

ResetStep(succeeded) ==
    /\ IsPrefix(CommandsIssued(hpIssued'), Plan("resetToMaster"))
    /\ ChainStep(succeeded)
    /\ hpPromise'.state = "fulfilled"
       => CommandsIssued(hpIssued') = Plan("resetToMaster")
    /\ hpArgs'.cwd = "" => (hpIssued' = <<>> /\ hpPromise'.state = "rejected")

\* C33: resetToMaster runs fetch, checkout master and reset --hard in that
\* order, each only after the one before it succeeded; a failed command stops
\* the sequence and rejects the returned promise with its error; with an empty
\* cwd it rejects without running any command.
C33_ResetInOrder == [][hpOp' = "resetToMaster" => ResetStep({"ok"})]_vars

\* C33 with a command that was killed by a signal taken for succeeded
C33_ResetInOrderButForSignals ==
    [][hpOp' = "resetToMaster" => ResetStep({"ok", "signal"})]_vars

CloneOrPullStep(succeeded) ==
    /\ hpExists' = Null => CommandsIssued(hpIssued') = <<"fs.exists">>
    /\ hpExists' = "yes"
       => IsPrefix(CommandsIssued(hpIssued'), <<"fs.exists">> \o PullSteps)
    /\ hpExists' = "no"
       => CommandsIssued(hpIssued') = <<"fs.exists">> \o CloneSteps
    /\ ChainStep(succeeded)
    /\ hpPromise'.state = "fulfilled"
       => CommandsIssued(hpIssued') \in
             {<<"fs.exists">> \o PullSteps, <<"fs.exists">> \o CloneSteps}

\* C34: cloneOrPull runs exactly one of two paths: fetch and then pull (pull
\* only after fetch succeeded) and never clone if the .git directory exists,
\* clone only otherwise; the returned promise settles exactly once, fulfilled
\* with the last command's result or rejected with the first failing
\* command's error.
C34_OnePathPerCall == [][hpOp' = "cloneOrPull" => CloneOrPullStep({"ok"})]_vars

\* C34 with a command that was killed by a signal taken for succeeded
C34_OnePathPerCallButForSignals ==
    [][hpOp' = "cloneOrPull" => CloneOrPullStep({"ok", "signal"})]_vars

====
